---- MODULE Spec2Model ----
(***************************************************************************)
(* A model of telegram-inline-menu: the MenuBuilder / MenuItemBuilder tree *)
(* (src/src/menu-builder.ts, src/src/menu-item-builder.ts) and the         *)
(* CallbackQueryHandler that dispatches button presses                     *)
(* (src/src/callback-handler.ts).                                          *)
(*                                                                         *)
(* Objects live in a heap: `menus' and `buttons' are sequences of records, *)
(* an object's handle is its position, handle 0 is `undefined'.  Shared    *)
(* JavaScript objects (the three registries of a tree, a value stack, a    *)
(* `buttons' dictionary) are heap objects of their own so that sharing by  *)
(* reference is modelled as sharing a handle.  Strings are sequences of    *)
(* one-character strings so that trim() is computed, not assumed.          *)
(*                                                                         *)
(* Every method is an operator from a heap S to a heap; a method that      *)
(* throws sets S.err and every later step of the same call chain is        *)
(* skipped.  An operator that also returns a value returns                 *)
(* [st |-> heap, val |-> value].                                           *)
(***************************************************************************)
EXTENDS Integers, Sequences, FiniteSets, TLC

VARIABLES menus, buttons, bdicts, regs, stacks, menuDict, kActive, aMenu,
          env, nano, hooks, isStrict, pending, last, steps

vars == <<menus, buttons, bdicts, regs, stacks, menuDict, kActive, aMenu,
          env, nano, hooks, isStrict, pending, last, steps>>

----------------------------------------------------------------------------
(* Bounds of the model. *)

\* heap size: MenuBuilder objects ever constructed
MaxMenus == 6
\* heap size: MenuItemBuilder objects ever constructed
MaxButtons == 9
\* Menu objects of one builder that are told apart: a new Menu gets an oid
\* other than that of the cache of its builder
MaxRenders == 2
\* identifiers drawn from nanoid()
MaxNano == 3
\* events dispatched, and writes and renders made, on a tree that is shown
MaxSteps == 3
\* menus of a tree that is built step by step
MaxTree == 4
\* dispatches that are suspended at an await at the same time
MaxPending == 2

----------------------------------------------------------------------------
(* Change flags, src/src/change.enum.ts.  A Change value is the set of the *)
(* bits that are set; `a | b' is union, `(a & b) === b' is membership.     *)

ChangeText == 1
ChangeVisibility == 2
ChangeLayout == 4
ChangeDraw == 8
ChangeUpdate == 16
ChangeNone == {}

----------------------------------------------------------------------------
(* Strings. *)

SP == " "

RECURSIVE TrimLeft(_)
TrimLeft(s) == IF s # <<>> /\ Head(s) = SP THEN TrimLeft(Tail(s)) ELSE s

RECURSIVE TrimRight(_)
TrimRight(s) ==
  IF s # <<>> /\ s[Len(s)] = SP THEN TrimRight(SubSeq(s, 1, Len(s) - 1)) ELSE s

\* String.prototype.trim
Trim(s) == TrimRight(TrimLeft(s))

IsPrefix(p, s) == Len(p) <= Len(s) /\ SubSeq(s, 1, Len(p)) = p

\* a.indexOf(b) >= 0 for two slash-delimited paths: b's segments occur
\* contiguously in a
IsInfix(b, a) ==
  \E i \in 0..(Len(a) - Len(b)) : SubSeq(a, i + 1, i + Len(b)) = b

----------------------------------------------------------------------------
(* Values shared by the heap records. *)

\* `boolean | Func<boolean>' (menu-item-builder.ts:193, 248): a constant or
\* a function; a function is named by its index in env, which holds what it
\* would return if it were called now.
Const(v) == [isFn |-> FALSE, v |-> v, f |-> 0]
Fn(k) == [isFn |-> TRUE, v |-> FALSE, f |-> k]

\* the target of navigation(text, value): a number, or a string that is a
\* path ("/a/b/", "../x") or an id; a string is kept as its segments
NoNav == [t |-> "none", n |-> 0, abs |-> FALSE, segs |-> <<>>, slash |-> FALSE]
NavNum(i) == [NoNav EXCEPT !.t = "num", !.n = i]
NavStr(abs, segs, slash) ==
  [t |-> "str", n |-> 0, abs |-> abs, segs |-> segs, slash |-> slash]

\* MenuItemBuilder.onPress: absent ("none"), the closure navigateToInnerMenu
\* of menu() ("inner", its builder in target), the closure navigate of
\* navigation() ("nav", its value in val), or a function of the user ("user")
NoPress == [k |-> "none", target |-> 0, val |-> NoNav]
PressInner(m) == [k |-> "inner", target |-> m, val |-> NoNav]
PressNav(v) == [k |-> "nav", target |-> 0, val |-> v]
PressUser == [k |-> "user", target |-> 0, val |-> NoNav]

\* a built button (CallbackButton | UrlButton) & { full }: callback_data is
\* kept as the menu path and the button id it is made of
NoItem == [set |-> FALSE, text |-> <<>>, hide |-> FALSE, full |-> FALSE,
           url |-> FALSE, cbPath |-> <<>>, cbId |-> <<>>]

\* a Menu (src/src/menu.ts:19-28); oid is the identity of the object
NoMenu == [set |-> FALSE, oid |-> 0, text |-> <<>>, id |-> <<>>,
           rows |-> <<>>, path |-> <<>>, isPure |-> TRUE, index |-> 0]

\* SYM_DYNAMIC_MENU_BUILDER: absent, or the closure dynamicMenuBuilder of
\* callback-handler.ts:670 with what it captured
NoDyn == [k |-> "none", button |-> 0, parent |-> 0, id |-> <<>>]

\* what a dispatch observed on its way, for the properties to read: the
\* change flags of the acting button (bf) and of its menu (mf) before (0)
\* and after (1) callback-handler.ts:576-577, whether a function of the
\* user ran, which hooks fired, what the dispatch returned, and which of
\* the branches navigate, close, menu and update of execButtonAction it
\* entered, how often handleGenerator called generator.next(), and how many
\* yielded values it gave to the handler of onGeneratorValue(), how many
\* errors were thrown, the menus whose toMenu() stored a new Menu, and the
\* text and the path the handler of a missing method was called with
NoProbe == [applied |-> FALSE, bf0 |-> {}, mf0 |-> {}, bf1 |-> {}, mf1 |-> {},
            ran |-> 0, unhandled |-> 0, queries |-> 0, errors |-> 0,
            missing |-> 0, deleted |-> 0, closed |-> 0, ret |-> "none",
            renders |-> 0, navIndex |-> -1, navTarget |-> 0, effects |-> {},
            next |-> 0, stepHandled |-> 0, raised |-> 0, cached |-> {},
            missingArgs |-> <<>>, nextValue |-> "undefined", passed |-> <<>>]

----------------------------------------------------------------------------
(* The heap. *)

Heap == [menus |-> menus, buttons |-> buttons, bdicts |-> bdicts,
         regs |-> regs, stacks |-> stacks, menuDict |-> menuDict,
         kActive |-> kActive, aMenu |-> aMenu, env |-> env, nano |-> nano,
         hooks |-> hooks, isStrict |-> isStrict, pending |-> pending,
         calls |-> <<>>, err |-> "none", oracle |-> <<>>, fnCalls |-> 0,
         failAt |-> 0, throws |-> FALSE,
         probe |-> NoProbe]

Ok(S) == S.err = "none"

\* throw e; the probe counts it
Throw(S, e) ==
  IF Ok(S) THEN [S EXCEPT !.err = e, !.probe.raised = @ + 1] ELSE S

\* a Dictionary<T>: a function from keys to handles
DictPut(d, k, h) == [x \in (DOMAIN d) \cup {k} |-> IF x = k THEN h ELSE d[x]]
DictDel(d, k) == [x \in (DOMAIN d) \ {k} |-> d[x]]
DictGet(d, k) == IF k \in DOMAIN d THEN d[k] ELSE 0

\* Array.prototype.indexOf(x, from): 0-based, -1 when absent; a negative
\* from counts from the end
IndexOfFrom(arr, x, from) ==
  LET start == IF from < 0 THEN (IF Len(arr) + from < 0 THEN 0 ELSE Len(arr) + from)
               ELSE from
      hits == {i \in 0..(Len(arr) - 1) : i >= start /\ arr[i + 1] = x}
  IN IF hits = {} THEN -1 ELSE CHOOSE i \in hits : \A j \in hits : i <= j

\* Array.prototype.splice(i, 1), i 0-based and in range
SpliceOne(arr, i) == SubSeq(arr, 1, i) \o SubSeq(arr, i + 2, Len(arr))

\* MenuBuilder.path (getter), menu-builder.ts:103-106.  _path is set only
\* for the id "/", which the model's ids leave out.
RECURSIVE path(_, _)
path(S, m) ==
  IF S.menus[m].parent = 0 THEN <<S.menus[m].id>>
  ELSE path(S, S.menus[m].parent) \o <<S.menus[m].id>>

\* the button with key id in a `buttons' dictionary, 0 when absent
ButtonOf(S, d, id) ==
  LET hit == {i \in 1..Len(S.bdicts[d]) : S.buttons[S.bdicts[d][i]].id = id}
  IN IF hit = {} THEN 0 ELSE S.bdicts[d][CHOOSE i \in hit : TRUE]

----------------------------------------------------------------------------
(* MenuItemBuilder, src/src/menu-item-builder.ts *)

\* MenuBuilder.markChange, menu-builder.ts:791-794
markChange(S, m, change) ==
  [S EXCEPT !.menus[m].changeFlags = @ \cup {change}]

\* MenuItemBuilder.markChange, menu-item-builder.ts:365-370
item_markChange(S, b, change) ==
  markChange([S EXCEPT !.buttons[b].changeFlags = @ \cup {change}],
             S.buttons[b].parent, change)

\* set text(to), menu-item-builder.ts:88-100
item_set_text(S, b, to) ==
  LET t == Trim(to) IN
  IF t = <<>> THEN S
  ELSE IF S.buttons[b].text = t THEN S
  ELSE item_markChange([S EXCEPT !.buttons[b].text = t], b, ChangeText)

\* set hide(to), menu-item-builder.ts:108-117
item_set_hide(S, b, to) ==
  IF S.buttons[b].hidden = to THEN S
  ELSE item_markChange([S EXCEPT !.buttons[b].hidden = to], b, ChangeVisibility)

\* set full(to), menu-item-builder.ts:125-134
item_set_full(S, b, to) ==
  IF S.buttons[b].full = to THEN S
  ELSE item_markChange([S EXCEPT !.buttons[b].full = to], b, ChangeLayout)

\* new MenuItemBuilder(parent, text, id), menu-item-builder.ts:136-144, as
\* MenuBuilder.button makes it (menu-builder.ts:322-325); the text is kept
\* as given
button(S, parent, text, id) ==
  LET b == Len(S.buttons) + 1
      rec == [id |-> id, parent |-> parent, text |-> text, hidden |-> FALSE,
              full |-> FALSE, url |-> FALSE, fullFunction |-> 0,
              hideFunction |-> 0, builtItem |-> NoItem, dynamicMenu |-> 0,
              changeFlags |-> ChangeNone, isPure |-> TRUE, onPress |-> NoPress]
  IN [st |-> [S EXCEPT !.buttons = Append(@, rec)], val |-> b]

\* setText(text), menu-item-builder.ts:155-164
setText(S, b, text) ==
  LET t == Trim(text) IN
  IF t = <<>> THEN S
  ELSE IF S.buttons[b].text = t THEN S
  ELSE item_markChange(item_set_text(S, b, t), b, ChangeText)

\* setHide(toOrWhen), menu-item-builder.ts:193-216
setHide(S, b, toOrWhen) ==
  IF ~toOrWhen.isFn /\ S.buttons[b].hidden = toOrWhen.v THEN S
  ELSE
    LET S1 == IF ~toOrWhen.isFn THEN item_set_hide(S, b, toOrWhen.v)
              ELSE [S EXCEPT !.buttons[b].hideFunction = toOrWhen.f,
                             !.buttons[b].isPure = FALSE,
                             !.menus[S.buttons[b].parent].isPure = FALSE]
    IN item_markChange(S1, b, ChangeVisibility)

\* setFull(toOrWhen), menu-item-builder.ts:248-271
setFull(S, b, toOrWhen) ==
  IF ~toOrWhen.isFn /\ S.buttons[b].full = toOrWhen.v THEN S
  ELSE
    LET S1 == IF ~toOrWhen.isFn THEN item_set_full(S, b, toOrWhen.v)
              ELSE [S EXCEPT !.buttons[b].fullFunction = toOrWhen.f,
                             !.buttons[b].isPure = FALSE,
                             !.menus[S.buttons[b].parent].isPure = FALSE]
    IN item_markChange(S1, b, ChangeLayout)

\* setOnPress(fun), menu-item-builder.ts:280-288
setOnPress(S, b, fun) == [S EXCEPT !.buttons[b].onPress = fun]

\* setUrl(url), menu-item-builder.ts:297-305
setUrl(S, b) == [S EXCEPT !.buttons[b].url = TRUE]

\* the digits of a property key
KeyDigits == <<"0", "1", "2", "3", "4", "5", "6", "7", "8", "9">>

\* the key id is an array index: the canonical decimal form of an integer
IsArrayIndex(id) ==
  /\ Len(id) > 0
  /\ \A i \in 1..Len(id) : \E k \in 1..10 : KeyDigits[k] = id[i]
  /\ Len(id) > 1 => id[1] # "0"

\* the integer an array index key stands for
RECURSIVE ArrayIndex(_)
ArrayIndex(id) ==
  IF id = <<>> THEN 0
  ELSE 10 * ArrayIndex(SubSeq(id, 1, Len(id) - 1))
         + (CHOOSE k \in 1..10 : KeyDigits[k] = id[Len(id)]) - 1

\* the keys of an object are enumerated with the array indices first, in
\* ascending order, and the other strings after them as they were created:
\* the new key of button b takes its place in the keys bs
OwnKeysWith(S, bs, b) ==
  LET id == S.buttons[b].id
      before == {i \in 1..Len(bs) :
                   /\ IsArrayIndex(id)
                   /\ \/ ~IsArrayIndex(S.buttons[bs[i]].id)
                      \/ ArrayIndex(S.buttons[bs[i]].id) > ArrayIndex(id)}
  IN IF before = {} THEN Append(bs, b)
     ELSE LET at == CHOOSE i \in before : \A j \in before : i <= j
          IN SubSeq(bs, 1, at - 1) \o <<b>> \o SubSeq(bs, at, Len(bs))

\* end(), menu-item-builder.ts:313-318: parent.buttons[this.id] = this; a
\* key that is already there keeps its place
item_end(S, b) ==
  LET d == S.menus[S.buttons[b].parent].buttons
      old == {i \in 1..Len(S.bdicts[d]) : S.buttons[S.bdicts[d][i]].id = S.buttons[b].id}
  IN IF old = {} THEN [S EXCEPT !.bdicts[d] = OwnKeysWith(S, @, b)]
     ELSE [S EXCEPT !.bdicts[d][CHOOSE i \in old : TRUE] = b]

\* the function of the user behind _fullFunction, menu-item-builder.ts:337-339
toMenuItemFull(S, b) ==
  IF S.buttons[b].fullFunction # 0
  THEN item_set_full(S, b, S.env[S.buttons[b].fullFunction]) ELSE S

\* the function of the user behind _hideFunction, menu-item-builder.ts:341-343
toMenuItemHide(S, b) ==
  IF S.buttons[b].hideFunction # 0
  THEN item_set_hide(S, b, S.env[S.buttons[b].hideFunction]) ELSE S

\* the end of toMenuItem, menu-item-builder.ts:345-362
toMenuItemBuilt(S, b) ==
  LET B == S.buttons[b]
      item == [set |-> TRUE, text |-> B.text, hide |-> B.hidden, full |-> B.full,
               url |-> B.url,
               cbPath |-> IF B.url THEN <<>> ELSE path(S, B.parent),
               cbId |-> IF B.url THEN <<>> ELSE B.id]
  IN [st |-> [S EXCEPT !.buttons[b].changeFlags = ChangeNone,
                       !.buttons[b].builtItem = item],
      val |-> item]

\* toMenuItem(), menu-item-builder.ts:328-363
toMenuItem(S, b) ==
  IF S.buttons[b].isPure /\ S.buttons[b].changeFlags = ChangeNone
     /\ S.buttons[b].builtItem.set
  THEN [st |-> S, val |-> S.buttons[b].builtItem]
  ELSE toMenuItemBuilt(toMenuItemHide(toMenuItemFull(S, b), b), b)

----------------------------------------------------------------------------
(* MenuBuilder, src/src/menu-builder.ts: construction and lookup *)

\* the three shared objects _menuById, _menuByIndex, _menuByPath of one
\* constructor call (menu-builder.ts:294-296); they are only ever handed on
\* together, so one handle stands for the three
EmptyReg == [byId |-> <<>>, byIndex |-> <<>>, byPath |-> <<>>]

\* the array behind SYM_VALUE_STACK: its elements and the properties that
\* pushValue(name, value) sets on it (menu-builder.ts:904-907)
EmptyStack == [items |-> <<>>, named |-> <<>>]

\* as new_MenuBuilderRegister, but with the id alone as the key of
\* _menuByPath
new_MenuBuilderRegisterFlat(S, m, r) ==
  [S EXCEPT !.regs[r].byId = DictPut(@, S.menus[m].id, m),
            !.regs[r].byIndex = Append(@, m),
            !.regs[r].byPath = DictPut(@, <<S.menus[m].id>>, m)]

\* the end of the constructor, menu-builder.ts:309-311
new_MenuBuilderRegister(S, m, r) ==
  [S EXCEPT !.regs[r].byId = DictPut(@, S.menus[m].id, m),
            !.regs[r].byIndex = Append(@, m),
            !.regs[r].byPath = DictPut(@, path(S, m), m)]

\* a constructor that pushes itself on _menuByIndex before it looks for its
\* id in _menuById
new_MenuBuilderPushFirst(S, text, id, parent, r) ==
  LET m == Len(S.menus) + 1
      rec == [id |-> id, text |-> text, parent |-> parent, children |-> <<>>,
              childrenDef |-> FALSE, cache |-> NoMenu, reg |-> r,
              rootMenu |-> IF parent # 0 /\ S.menus[parent].rootMenu # 0
                           THEN S.menus[parent].rootMenu ELSE m,
              lastMenuIndex |-> 0, index |-> 0,
              isPure |-> TRUE, buttons |-> Len(S.bdicts) + 1,
              changeFlags |-> {ChangeDraw}, vstack |-> 0, dyn |-> NoDyn,
              firstDraw |-> "absent"]
  IN IF id \in DOMAIN S.regs[r].byId
     THEN [st |-> Throw([S EXCEPT !.menus = Append(@, rec),
                                  !.bdicts = Append(@, <<>>),
                                  !.regs[r].byIndex = Append(@, m)],
                        "Menu with id is previously defined"),
           val |-> 0]
     ELSE [st |-> new_MenuBuilderRegister(
                    [S EXCEPT !.menus = Append(@, rec), !.bdicts = Append(@, <<>>)],
                    m, r),
           val |-> m]

\* the constructor, menu-builder.ts:286-311, with the registries r it is to
\* share or has just made
new_MenuBuilderIn(S, text, id, parent, r) ==
  LET m == Len(S.menus) + 1
      rec == [id |-> id, text |-> text, parent |-> parent, children |-> <<>>,
              childrenDef |-> FALSE, cache |-> NoMenu, reg |-> r,
              rootMenu |-> IF parent # 0 /\ S.menus[parent].rootMenu # 0
                           THEN S.menus[parent].rootMenu ELSE m,
              lastMenuIndex |-> 0, index |-> 0,
              isPure |-> TRUE, buttons |-> Len(S.bdicts) + 1,
              changeFlags |-> {ChangeDraw}, vstack |-> 0, dyn |-> NoDyn,
              firstDraw |-> "absent"]
  IN IF id \in DOMAIN S.regs[r].byId
     THEN [st |-> Throw(S, "Menu with id is previously defined"), val |-> 0]
     ELSE [st |-> new_MenuBuilderRegister(
                    [S EXCEPT !.menus = Append(@, rec), !.bdicts = Append(@, <<>>)],
                    m, r),
           val |-> m]

\* constructor, menu-builder.ts:278-312
new_MenuBuilder(S, text, id, parent) ==
  IF parent # 0 /\ S.menus[parent].reg # 0
  THEN new_MenuBuilderIn(S, text, id, parent, S.menus[parent].reg)
  ELSE new_MenuBuilderIn([S EXCEPT !.regs = Append(@, EmptyReg)], text, id, parent,
                         Len(S.regs) + 1)

RECURSIVE getChildWithIndex(_, _, _)
RECURSIVE getChildWithIndexFrom(_, _, _, _)

\* getChildWithIndex(index), menu-builder.ts:193-203
getChildWithIndex(S, m, index) ==
  IF S.menus[m].index = index THEN m
  ELSE IF ~S.menus[m].childrenDef THEN 0
  ELSE getChildWithIndexFrom(S, S.menus[m].children, 1, index)

\* the loop of menu-builder.ts:198-202 from child i on
getChildWithIndexFrom(S, ch, i, index) ==
  IF i > Len(ch) THEN 0
  ELSE IF getChildWithIndex(S, ch[i], index) # 0
  THEN getChildWithIndex(S, ch[i], index)
  ELSE getChildWithIndexFrom(S, ch, i + 1, index)

\* the do-while of getChildByPath, menu-builder.ts:233-249, entered with
\* the children of `current' and the segments still to match
RECURSIVE getChildByPathWalk(_, _, _, _, _)
getChildByPathWalk(S, current, children, childrenDef, segs) ==
  IF ~childrenDef THEN 0
  ELSE IF segs = <<>> THEN current
  ELSE
    LET hits == {i \in 1..Len(children) : S.menus[children[i]].id = Head(segs)}
    IN IF hits = {} THEN 0
       ELSE LET c == children[CHOOSE i \in hits : \A j \in hits : j <= i]
            IN IF ~S.menus[c].childrenDef THEN c
               ELSE getChildByPathWalk(S, c, S.menus[c].children, TRUE, Tail(segs))

\* getChildByPath(path), menu-builder.ts:212-258.  The path is given by its
\* segments, which is what lines 213-214 normalise it to.  -1: the call
\* throws a TypeError (`in' on the undefined _menuByPath of a detached menu).
RECURSIVE getChildByPath(_, _, _)
getChildByPath(S, m, p) ==
  LET M == S.menus[m] IN
  IF M.reg = 0 THEN -1
  ELSE IF p \in DOMAIN S.regs[M.reg].byPath THEN S.regs[M.reg].byPath[p]
  ELSE IF p = <<>> THEN M.rootMenu
  ELSE IF IsPrefix(path(S, m), p)
    THEN getChildByPathWalk(S, m, M.children, M.childrenDef,
                            SubSeq(p, Len(path(S, m)) + 1, Len(p)))
  ELSE IF M.parent # 0
          /\ (IsInfix(p, path(S, M.parent)) \/ IsInfix(path(S, M.parent), p))
    THEN getChildByPath(S, M.parent, p)
  ELSE 0

\* menu.buttons[itemPath], menu-builder.ts:273-275, of the menu found
getMenuItemOf(S, found, itemId) ==
  IF found = -1 THEN -1
  ELSE IF found = 0 THEN 0
  ELSE ButtonOf(S, S.menus[found].buttons, itemId)

\* getMenuItemByPath(path), menu-builder.ts:267-276; the path of a button is
\* the path of its menu followed by the id of the button.  -1: throws.
getMenuItemByPath(S, m, menuPath, itemId) ==
  getMenuItemOf(S, getChildByPath(S, m, menuPath), itemId)

\* set text(to), menu-builder.ts:138-145
menu_set_text(S, m, to) ==
  IF Trim(to) = <<>> THEN S
  ELSE IF S.menus[m].text = Trim(to) THEN S
  ELSE markChange([S EXCEPT !.menus[m].text = Trim(to)], m, ChangeText)

\* hasChange(change), menu-builder.ts:154-156
hasChange(S, m, change) == change \in S.menus[m].changeFlags

\* hasAnyChange(...changes), menu-builder.ts:165-172
hasAnyChange(S, m, changes) == \E c \in changes : c \in S.menus[m].changeFlags

\* isChanged, menu-builder.ts:126-128
isChanged(S, m) == S.menus[m].changeFlags # ChangeNone

\* isCreatedByFunction, menu-builder.ts:114-117
isCreatedByFunction(S, m) == S.menus[m].dyn.k # "none"

\* _getValueStack(previous = []), menu-builder.ts:889-920; previous = 0 is
\* the default, a new array
_getValueStack(S, m, previous) ==
  IF S.menus[m].vstack # 0 THEN [st |-> S, val |-> S.menus[m].vstack]
  ELSE IF previous = 0
  THEN [st |-> [S EXCEPT !.stacks = Append(@, EmptyStack),
                         !.menus[m].vstack = Len(S.stacks) + 1],
        val |-> Len(S.stacks) + 1]
  ELSE [st |-> [S EXCEPT !.menus[m].vstack = previous], val |-> previous]

\* pushValue(name, value), menu-builder.ts:904-907
pushValue(S, h, name, value) ==
  [S EXCEPT !.stacks[h].named = DictPut(@, name, value),
            !.stacks[h].items = Append(@, value)]

\* the loop of _detach, menu-builder.ts:838-844, over the siblings from
\* position index (0-based) on
RECURSIVE _detachRenumber(_, _, _, _)
_detachRenumber(S, siblings, index, threshold) ==
  IF index >= Len(siblings) THEN S
  ELSE _detachRenumber(
         IF S.menus[siblings[index + 1]].index < threshold THEN S
         ELSE [S EXCEPT !.menus[siblings[index + 1]].index = @ - 1],
         siblings, index + 1, threshold)

\* _detach, menu-builder.ts:808-812: out of the registries r
_detachRegistries(S, m, r, i) ==
  [S EXCEPT !.regs[r].byId = DictDel(@, S.menus[m].id),
            !.regs[r].byPath = DictDel(@, path(S, m)),
            !.regs[r].byIndex = IF i >= 0 THEN SpliceOne(@, i) ELSE @]

\* _detach, menu-builder.ts:814-823: the value stack vs is emptied, the
\* registries and the root are forgotten
_detachShared(vs, m) ==
  [vs.st EXCEPT !.stacks[vs.val].items = <<>>,
                !.menus[m].reg = 0,
                !.menus[m].rootMenu = 0]

\* _detach, menu-builder.ts:829-844: out of the children of parent, at
\* position index of them
_detachSibling(S, m, parent, siblings, index) ==
  IF index < 0 THEN [S EXCEPT !.menus[m].parent = 0]
  ELSE _detachRenumber([S EXCEPT !.menus[m].parent = 0,
                                 !.menus[parent].children = SpliceOne(siblings, index)],
                       SpliceOne(siblings, index), index, index)

\* _detach, menu-builder.ts:825-844
_detachParent(S, m, parent) ==
  IF parent = 0 THEN S
  ELSE IF ~S.menus[parent].childrenDef THEN Throw(S, "TypeError")
  ELSE _detachSibling(S, m, parent, S.menus[parent].children,
                      IndexOfFrom(S.menus[parent].children, m, 0))

\* _detach(), menu-builder.ts:807-845
_detach(S, m) ==
  IF ~Ok(S) THEN S
  ELSE IF S.menus[m].reg = 0 THEN Throw(S, "TypeError")
  ELSE _detachParent(
         _detachShared(
           _getValueStack(
             _detachRegistries(S, m, S.menus[m].reg,
                               IndexOfFrom(S.regs[S.menus[m].reg].byIndex, m,
                                           S.menus[m].index - 1)),
             m, 0),
           m),
         m, S.menus[m].parent)

\* _attach, menu-builder.ts:881-886, S with the fields of lines 861-880 set
_attachRegister(S, m, r) ==
  IF r = 0 THEN Throw(S, "TypeError")
  ELSE [S EXCEPT !.regs[r].byId = DictPut(@, S.menus[m].id, m),
                 !.regs[r].byPath = DictPut(@, path(S, m), m),
                 !.regs[r].byIndex = Append(@, m),
                 !.menus[m].index = Len(S.regs[r].byIndex)]

\* _attach(to), menu-builder.ts:859-887
_attach(S, m, to) ==
  IF ~Ok(S) THEN S
  ELSE _attachRegister([S EXCEPT !.menus[m].parent = to,
                                 !.menus[m].reg = S.menus[to].reg,
                                 !.menus[m].rootMenu = S.menus[to].rootMenu,
                                 !.menus[to].childrenDef = TRUE,
                                 !.menus[to].children = Append(@, m)],
                       m, S.menus[to].reg)

\* this._dynamicMenu = to, menu-item-builder.ts:30
set_dynamicMenuTo(S, b, to) ==
  IF ~Ok(S) THEN S ELSE [S EXCEPT !.buttons[b].dynamicMenu = to]

\* set dynamicMenu(to), menu-item-builder.ts:27-31
set_dynamicMenu(S, b, to) ==
  set_dynamicMenuTo(IF S.buttons[b].dynamicMenu # 0
                    THEN _detach(S, S.buttons[b].dynamicMenu) ELSE S,
                    b, to)

----------------------------------------------------------------------------
(* MenuBuilder: building a tree *)

\* an optional string argument: given, or left to nanoid()
Given(s) == [given |-> TRUE, s |-> s]
NotGiven == [given |-> FALSE, s |-> <<>>]

Digits == <<"1", "2", "3", "4", "5", "6", "7", "8", "9">>

\* nanoid(): the n-th identifier it hands out; "#" is in no other id
nanoid(S) == [st |-> [S EXCEPT !.nano = @ + 1], val |-> <<"#", Digits[S.nano + 1]>>]

\* `x ?? nanoid()' followed by trim(), menu-builder.ts:452-453, 463-467
idOrNanoid(S, x) == IF x.given THEN [st |-> S, val |-> Trim(x.s)] ELSE nanoid(S)

\* !!x of a `boolean | Func' (menu-builder.ts:508-509): a function is truthy
Truthy(x) == IF x.isFn THEN TRUE ELSE x.v

\* the while loop of menu(), menu-builder.ts:489-494
RECURSIVE menuPropagateLast(_, _)
menuPropagateLast(S, target) ==
  IF S.menus[target].parent = 0 THEN S
  ELSE menuPropagateLast(
         [S EXCEPT !.menus[S.menus[target].parent].lastMenuIndex =
                     S.menus[target].lastMenuIndex],
         S.menus[target].parent)

\* the for loop of menu(), menu-builder.ts:497-500, from its i-th child on
RECURSIVE menuChildrenLastFrom(_, _, _, _)
menuChildrenLastFrom(S, this, idx, i) ==
  IF i > Len(S.menus[this].children) THEN S
  ELSE menuChildrenLastFrom(
         [S EXCEPT !.menus[S.menus[this].children[i]].lastMenuIndex = idx],
         this, idx, i + 1)

\* the for loop of menu(), menu-builder.ts:497-500
menuChildrenLast(S, this, idx) == menuChildrenLastFrom(S, this, idx, 1)

\* menu(), menu-builder.ts:471-500, for the builder just constructed
menuIndex(S, this, builder, idx) ==
  menuChildrenLast(
    menuPropagateLast(
      [S EXCEPT !.menus[this].lastMenuIndex = idx,
                !.menus[builder].rootMenu = S.menus[this].rootMenu,
                !.menus[builder].index = idx,
                !.menus[builder].lastMenuIndex = idx,
                !.menus[this].childrenDef = TRUE,
                !.menus[this].children = Append(@, builder)],
      this),
    this, idx)

\* menu(), menu-builder.ts:504-510, on the button nb just made
menuButtonEnd(nb, builder, full, hide) ==
  item_end(setHide(setFull(setOnPress(nb.st, nb.val, PressInner(builder)),
                           nb.val, Const(Truthy(full))),
                   nb.val, Const(Truthy(hide))),
           nb.val)

\* menu(), menu-builder.ts:471-512, c being what the constructor gave
menuBuilt(c, this, buttonText, buttonId, full, hide) ==
  IF ~Ok(c.st) THEN [st |-> c.st, val |-> 0]
  ELSE [st |-> menuButtonEnd(
                 button(menuIndex(c.st, this, c.val,
                                  c.st.menus[this].lastMenuIndex + 1),
                        this, buttonText, buttonId),
                 c.val, full, hide),
        val |-> c.val]

\* menu(), menu-builder.ts:466-512, n2 being the id of the button
menuButtonId(n2, this, text, buttonText, id, full, hide) ==
  IF n2.val = <<>>
  THEN [st |-> Throw(n2.st, "The button menu id was empty"), val |-> 0]
  ELSE menuBuilt(new_MenuBuilder(n2.st, text, id, this), this, buttonText, n2.val,
                 full, hide)

\* menu(), menu-builder.ts:463-512, n1 being the id of the menu
menuId(n1, this, text, buttonText, buttonId, full, hide) ==
  IF n1.val = <<>> THEN [st |-> Throw(n1.st, "The menu id was empty"), val |-> 0]
  ELSE menuButtonId(idOrNanoid(n1.st, buttonId), this, text, buttonText, n1.val,
                    full, hide)

\* menu(menuText, buttonText, menuId, buttonId, isFull, isHidden),
\* menu-builder.ts:405-513, with its arguments as lines 450-455 have them.
\* Line 461 tests the text of the menu a second time, not that of the button.
menu(S, this, menuText, buttonText, mId, buttonId, full, hide) ==
  IF Trim(menuText) = <<>>
  THEN [st |-> Throw(S, "The text of the menu was empty"), val |-> 0]
  ELSE menuId(idOrNanoid(S, mId), this, Trim(menuText), Trim(buttonText), buttonId,
              full, hide)

\* the button navigation() sets the closure navigate on, menu-builder.ts:568
navigationOn(nb, value) ==
  [st |-> setOnPress(nb.st, nb.val, PressNav(value)), val |-> nb.val]

\* navigation(text, value, id), menu-builder.ts:565-638: the button, not yet
\* ended, with the closure navigate as its onPress
navigation(S, this, text, value, id) == navigationOn(button(S, this, text, id), value)

\* if (typeof url === 'string') btn.setUrl(url), menu-builder.ts:1015-1017
fromObjectUrl(S, b, e) == IF e.url THEN setUrl(S, b) ELSE S

\* if (typeof onPress === 'function') btn.setOnPress(onPress),
\* menu-builder.ts:1019-1021
fromObjectOnPress(S, b, e) == IF e.onPress THEN setOnPress(S, b, PressUser) ELSE S

\* fromObject, menu-builder.ts:1013-1023, on the button nb just made
fromObjectButtonSet(nb, e) ==
  item_end(fromObjectOnPress(
             fromObjectUrl(setHide(setFull(nb.st, nb.val, e.full), nb.val, e.hide),
                           nb.val, e),
             nb.val, e),
           nb.val)

\* builder.button(button, id).end(), menu-builder.ts:968
fromObjectLabel(nb) == item_end(nb.st, nb.val)

\* one entry of layout.buttons that has neither buttons nor a navigate,
\* fromObject, menu-builder.ts:967-969 and 976-1024
fromObjectButton(S, builder, e) ==
  IF e.kind = "label" THEN fromObjectLabel(button(S, builder, e.text, e.id))
  ELSE fromObjectButtonSet(button(S, builder, e.text, e.id), e)

\* path.resolve(base, rel) of node for an absolute base: "." stays, ".."
\* drops the last segment (not above the root), a name is appended
RECURSIVE resolve(_, _)
resolve(base, segs) ==
  IF segs = <<>> THEN base
  ELSE IF Head(segs) = <<".">> THEN resolve(base, Tail(segs))
  ELSE IF Head(segs) = <<".", ".">>
       THEN resolve(IF base = <<>> THEN base ELSE SubSeq(base, 1, Len(base) - 1),
                    Tail(segs))
  ELSE resolve(Append(base, Head(segs)), Tail(segs))

\* fromObject, menu-builder.ts:1005-1010: the navigation button of entry e
\* with the value navigate
fromObjectNavigation(S, builder, e, navigate) ==
  LET nb == navigation(S, builder, e.text, navigate, e.id)
  IN item_end(setHide(setFull(nb.st, nb.val, e.full), nb.val, e.hide), nb.val)

\* a fromObject that hands a negative navigate on to navigation() as it is
fromObjectNegativeKept(S, builder, e, targetMenu) ==
  fromObjectNavigation(S, builder, e, e.navigate)

\* fromObject, menu-builder.ts:980-989: a negative navigate becomes the path
\* of the menu whose index is that much below the index of builder
fromObjectNegative(S, builder, e, targetMenu) ==
  IF targetMenu = 0
  THEN Throw(S, "Menu with relative index could not be found")
  ELSE fromObjectNavigation(S, builder, e, NavStr(TRUE, path(S, targetMenu), TRUE))

\* one entry of layout.buttons that has a navigate, fromObject,
\* menu-builder.ts:976-1010
fromObjectNavigate(S, builder, e) ==
  IF e.navigate.t = "num" /\ e.navigate.n < 0
  THEN fromObjectNegative(S, builder, e,
                          getChildWithIndex(S, S.menus[builder].rootMenu,
                                            S.menus[builder].index + e.navigate.n))
  ELSE IF e.navigate.t = "num" /\ e.navigate.n = S.menus[builder].index
  THEN Throw(S, "It is not possible to create navigation button for the same menu")
  ELSE IF e.navigate.t = "str" /\ ~e.navigate.abs /\ e.navigate.segs # <<>>
          /\ Head(Head(e.navigate.segs)) = "."
  THEN IF resolve(path(S, builder), e.navigate.segs) = path(S, builder)
       THEN Throw(S, "It is not possible to create navigation button for the same menu")
       ELSE fromObjectNavigation(S, builder, e,
                                 NavStr(TRUE, resolve(path(S, builder),
                                                      e.navigate.segs), TRUE))
  ELSE fromObjectNavigation(S, builder, e, e.navigate)

RECURSIVE fromObjectButtons(_, _, _, _)

\* one entry of layout.buttons that has buttons of its own, fromObject,
\* menu-builder.ts:946-957 and 971-974: sub is the submenu menu() made
fromObjectSubMenuIn(sub, e) ==
  IF ~Ok(sub.st) THEN sub.st ELSE fromObjectButtons(sub.st, sub.val, e.buttons, 1)

\* MenuBuilder.fromObject(button, builder, button.id ?? id, button),
\* menu-builder.ts:972
fromObjectSubMenu(S, builder, e) ==
  fromObjectSubMenuIn(
    menu(S, builder, e.text, e.text, Given(e.id),
         Given(<<"n", "a", "v", ".">> \o S.menus[builder].id \o <<".">> \o e.id),
         e.full, e.hide),
    e)

\* one entry of layout.buttons, menu-builder.ts:966-1025
fromObjectEntry(S, builder, e) ==
  IF ~Ok(S) THEN S
  ELSE IF e.kind = "menu" THEN fromObjectSubMenu(S, builder, e)
  ELSE IF e.kind = "navigate" THEN fromObjectNavigate(S, builder, e)
  ELSE fromObjectButton(S, builder, e)

\* the loop of fromObject over layout.buttons, menu-builder.ts:965-1027
fromObjectButtons(S, builder, entries, i) ==
  IF i > Len(entries) THEN S
  ELSE fromObjectButtons(fromObjectEntry(S, builder, entries[i]), builder,
                         entries, i + 1)

MainId == <<"m", "a", "i", "n">>

\* fromObject, menu-builder.ts:965-1033, c being what the constructor gave
fromObjectInto(c, layout) ==
  [st |-> fromObjectButtons(c.st, c.val, layout.buttons, 1), val |-> c.val]

\* MenuBuilder.fromObject(source) without a parent builder,
\* menu-builder.ts:934-1034
fromObject(S, layout) ==
  fromObjectInto(new_MenuBuilder(S, layout.text,
                                 IF layout.hasId THEN layout.id ELSE MainId, 0),
                 layout)

----------------------------------------------------------------------------
(* Rendering *)

\* a call of a layout-producing function of the user (the `menu' of a
\* result, or the source of inlineMenu): what it returns is the next
\* layout the environment chose for this dispatch
callLayoutFn(S) ==
  [st |-> [S EXCEPT !.oracle = IF Len(@) > 1 THEN Tail(@) ELSE @,
                    !.fnCalls = @ + 1],
   val |-> Head(S.oracle)]

\* dynamicMenuBuilder, callback-handler.ts:676-684, c being the new menu
dynamicMenuBuilderAttach(c, dyn) ==
  [st |-> _attach(set_dynamicMenu([c.st EXCEPT !.menus[c.val].changeFlags = {ChangeDraw},
                                               !.menus[c.val].dyn = dyn],
                                  dyn.button, c.val),
                  c.val, dyn.parent),
   val |-> c.val]

\* dynamicMenuBuilder, callback-handler.ts:672-684, f being the new layout
dynamicMenuBuilderLayout(f, dyn) ==
  dynamicMenuBuilderAttach(fromObject(f.st, [f.val EXCEPT !.hasId = TRUE,
                                                          !.id = dyn.id]),
                           dyn)

\* dynamicMenuBuilder(), callback-handler.ts:670-685
dynamicMenuBuilder(S, dyn) == dynamicMenuBuilderLayout(callLayoutFn(S), dyn)

RECURSIVE toMenuRows(_, _, _, _, _)
RECURSIVE toMenuRowsAdd(_, _, _, _, _)

\* the rows of toMenu, menu-builder.ts:715-736: rows are the finished rows,
\* cur the row being filled
toMenuRows(S, bs, i, rows, cur) ==
  IF i > Len(bs)
  THEN [st |-> S, val |-> IF cur # <<>> THEN Append(rows, cur) ELSE rows]
  ELSE toMenuRowsAdd(toMenuItem(S, bs[i]), bs, i, rows, cur)

\* menu-builder.ts:721-731 for the item r of button i
toMenuRowsAdd(r, bs, i, rows, cur) ==
  IF r.val.full
  THEN toMenuRows(r.st, bs, i + 1,
                  Append(IF cur # <<>> THEN Append(rows, cur) ELSE rows, <<r.val>>),
                  <<>>)
  ELSE toMenuRows(r.st, bs, i + 1, rows, Append(cur, r.val))

\* toMenu, menu-builder.ts:701-705, r being the menu the builder gave
toMenuBorrow(r, m) ==
  IF ~Ok(r.st) THEN r.st
  ELSE [menu_set_text(r.st, m, r.st.menus[r.val].text)
          EXCEPT !.menus[m].buttons = r.st.menus[r.val].buttons]

\* toMenu, menu-builder.ts:690-695
toMenuSourceBuilt(c, dyn) ==
  [st |-> [c.st EXCEPT !.menus[c.val].dyn = dyn], val |-> c.val]

\* toMenu, menu-builder.ts:687-696, f being the layout the source gave
toMenuSourceLayout(f, id, dyn) ==
  toMenuSourceBuilt(fromObject(f.st, [f.val EXCEPT !.hasId = TRUE, !.id = id]), dyn)

\* the dynamic branch of toMenu, menu-builder.ts:677-711
toMenuDynamic(S, m) ==
  IF S.menus[m].firstDraw = "true"
  THEN [S EXCEPT !.menus[m].firstDraw = "false"]
  ELSE toMenuBorrow(IF S.menus[m].dyn.k = "button"
                    THEN dynamicMenuBuilder(S, S.menus[m].dyn)
                    ELSE toMenuSourceLayout(callLayoutFn(S), S.menus[m].id,
                                            S.menus[m].dyn),
                    m)

RECURSIVE toMenu(_, _, _)

\* new Menu(...), menu-builder.ts:739-747
toMenuBuilt(S, m, soft, text, rows) ==
  IF ~Ok(S) THEN [st |-> S, val |-> NoMenu]
  ELSE
    LET built == [set |-> TRUE, oid |-> (S.menus[m].cache.oid % MaxRenders) + 1,
                  text |-> text, id |-> S.menus[m].id, rows |-> rows,
                  path |-> path(S, m), isPure |-> S.menus[m].isPure,
                  index |-> S.menus[m].index]
    IN [st |-> IF soft THEN [S EXCEPT !.probe.renders = @ + 1]
               ELSE [S EXCEPT !.probe.renders = @ + 1,
                              !.probe.cached = @ \cup {m},
                              !.menus[m].changeFlags = ChangeNone,
                              !.menus[m].cache = built],
        val |-> built]

\* await this._parent?.toMenu(), menu-builder.ts:738
toMenuParent(S, m) ==
  IF S.menus[m].parent # 0 THEN toMenu(S, S.menus[m].parent, FALSE).st ELSE S

\* toMenu, menu-builder.ts:738-747, rows being the rows of the buttons
toMenuFinish(rows, m, soft, text) ==
  toMenuBuilt(toMenuParent(rows.st, m), m, soft, text, rows.val)

\* toMenu, menu-builder.ts:713-747
toMenuItems(S, m, soft) ==
  IF ~Ok(S) THEN [st |-> S, val |-> NoMenu]
  ELSE toMenuFinish(toMenuRows(S, S.bdicts[S.menus[m].buttons], 1, <<>>, <<>>),
                    m, soft, S.menus[m].text)

\* toMenu(soft), menu-builder.ts:671-748
toMenu(S, m, soft) ==
  IF ~Ok(S) THEN [st |-> S, val |-> NoMenu]
  ELSE IF S.menus[m].changeFlags = ChangeNone /\ S.menus[m].cache.set
  THEN [st |-> S, val |-> S.menus[m].cache]
  ELSE toMenuItems(IF S.menus[m].changeFlags # ChangeNone /\ S.menus[m].dyn.k # "none"
                   THEN toMenuDynamic(S, m) ELSE S,
                   m, soft)

----------------------------------------------------------------------------
(* CallbackQueryHandler, src/src/callback-handler.ts *)

\* a call of the transport: ctx.reply, ctx.editMessageText,
\* ctx.editMessageReplyMarkup, ctx.deleteMessage; the call that is number
\* failAt of its dispatch is rejected, the others are delivered
Call(S, op, text, kb) ==
  IF ~Ok(S) THEN S
  ELSE IF S.failAt = Len(S.calls) + 1 THEN Throw(S, "TransportError")
  ELSE [S EXCEPT !.calls = Append(@, [op |-> op, text |-> text, kb |-> kb])]

\* set activeMenu(to), callback-handler.ts:89-103
set_activeMenu(S, to) ==
  IF ~Ok(S) THEN S
  ELSE IF to = 0 THEN [S EXCEPT !.kActive = 0]
  ELSE IF isCreatedByFunction(S, to) /\ S.menuDict.def
          /\ S.menus[to].id \in DOMAIN S.menuDict.d
  THEN [S EXCEPT !.kActive = to, !.menuDict.d = DictPut(@, S.menus[to].id, to)]
  ELSE [S EXCEPT !.kActive = to]

\* registerMenu(menuBuilder), callback-handler.ts:207-214
registerMenu(S, m) ==
  IF ~Ok(S) THEN S
  ELSE [S EXCEPT !.menuDict = [def |-> TRUE,
                               d |-> DictPut(S.menuDict.d, S.menus[m].id, m)]]

\* deleteMenu(id), callback-handler.ts:223-231, called with a MenuBuilder
deleteMenu(S, m) ==
  IF ~Ok(S) THEN S
  ELSE IF ~S.menuDict.def THEN S
  ELSE IF S.menus[m].id \notin DOMAIN S.menuDict.d THEN S
  ELSE [S EXCEPT !.menuDict.d = DictDel(@, S.menus[m].id),
                 !.probe.deleted = @ + 1]

\* getMenuById(id), callback-handler.ts:240-244
getMenuById(S, id) == IF ~S.menuDict.def THEN 0 ELSE DictGet(S.menuDict.d, id)

\* showMenu, callback-handler.ts:257-259, r being the Menu built
showMenuBuilt(r, m) ==
  Call(registerMenu(r.st, m), "reply", r.st.menus[m].text, r.val.rows)

\* showMenu(ctx, menuBuilder), callback-handler.ts:255-260
showMenu(S, m) == showMenuBuilt(toMenu(S, m, FALSE), m)

\* closeMenu, callback-handler.ts:324-347: the call of the transport
closeMenuCall(S, hasMsg, withText, justRemoveMarkup) ==
  IF withText # <<>>
  THEN IF justRemoveMarkup THEN Call(S, "editMessageReplyMarkup", <<>>, <<>>)
       ELSE IF S.kActive # 0 /\ Trim(withText) = S.menus[S.kActive].text
            THEN Call(S, "editMessageReplyMarkup", <<>>, <<>>)
            ELSE Call(S, "editMessageText", Trim(withText), <<>>)
  ELSE IF ~justRemoveMarkup
       THEN IF hasMsg THEN Call(S, "deleteMessage", <<>>, <<>>) ELSE S
       ELSE Call(S, "editMessageReplyMarkup", <<>>, <<>>)

\* closeMenu, callback-handler.ts:349-350
closeMenuDone(S) ==
  IF ~Ok(S) THEN S ELSE [set_activeMenu(S, 0) EXCEPT !.probe.closed = @ + 1]

\* closeMenu(ctx, withText, justRemoveMarkup), callback-handler.ts:300-351;
\* hasMsg: ctx.callbackQuery.message.message_id is there
closeMenu(S, hasMsg, withText, justRemoveMarkup) ==
  IF ~Ok(S) THEN S
  ELSE closeMenuDone(closeMenuCall(S, hasMsg, withText, justRemoveMarkup))

\* updateMenuContent, callback-handler.ts:554, r being the Menu built
updateMenuContentBuilt(r) == Call(r.st, "editMessageReplyMarkup", <<>>, r.val.rows)

\* updateMenuContent(ctx, menu), callback-handler.ts:552-555
updateMenuContent(S, m) == updateMenuContentBuilt(toMenu(S, m, FALSE))

\* what the source function of inlineMenu gives: a layout, which has no
\* toMenu
buildAnotherLayout(f) == [st |-> f.st, val |-> 0, kind |-> "layout"]

\* what dynamicMenuBuilder gives: a builder
buildAnotherBuilder(r) == [st |-> r.st, val |-> r.val, kind |-> "builder"]

\* buildAnotherInstance(), menu-builder.ts:651-659, as setMenuActive calls
\* it.  val 0: undefined.
buildAnotherInstance(S, m) ==
  IF ~isCreatedByFunction(S, m) THEN [st |-> S, val |-> 0, kind |-> "none"]
  ELSE IF S.menus[m].dyn.k = "button"
  THEN buildAnotherBuilder(dynamicMenuBuilder(S, S.menus[m].dyn))
  ELSE buildAnotherLayout(callLayoutFn(S))

\* the items of the rows of a Menu, in the order some() visits them
RECURSIVE Flatten(_)
Flatten(rows) == IF rows = <<>> THEN <<>> ELSE Head(rows) \o Flatten(Tail(rows))

\* the callback of cols.some, callback-handler.ts:520-527, for the old
\* button b and one item: "true", "false", or "throw" (callback_data of a
\* url button is undefined)
hasChangeItem(S, b, item) ==
  IF item.url THEN "throw"
  ELSE IF S.buttons[b].id # item.cbId THEN "false"
  ELSE IF S.buttons[b].text # item.text THEN "true"
  ELSE IF ~S.buttons[b].isPure THEN "true"
  ELSE IF S.buttons[b].hidden # item.hide THEN "true"
  ELSE "false"

\* builtMenu.buttons.some(cols => cols.some(...)), callback-handler.ts:519-528,
\* for one old button and the items from position i on
RECURSIVE hasChangeOf(_, _, _, _)
hasChangeOf(S, b, items, i) ==
  IF i > Len(items) THEN "false"
  ELSE IF hasChangeItem(S, b, items[i]) # "false" THEN hasChangeItem(S, b, items[i])
  ELSE hasChangeOf(S, b, items, i + 1)

\* the loop over oldButtons, callback-handler.ts:516-534, from position k
\* on: the verdict of the first old button whose verdict is not "false"
RECURSIVE anyHasChange(_, _, _, _)
anyHasChange(S, olds, items, k) ==
  IF k > Len(olds) THEN "false"
  ELSE IF hasChangeOf(S, olds[k], items, 1) # "false"
  THEN hasChangeOf(S, olds[k], items, 1)
  ELSE anyHasChange(S, olds, items, k + 1)

\* as setMenuActiveFull, but patching the keyboard only
setMenuActivePatch(S, m, builtMenu) ==
  Call(set_activeMenu(S, m), "editMessageReplyMarkup", <<>>, builtMenu.rows)

\* setMenuActive, callback-handler.ts:547-549
setMenuActiveFull(S, m, builtMenu) ==
  Call(set_activeMenu(S, m), "editMessageText", builtMenu.text, builtMenu.rows)

\* setMenuActive, callback-handler.ts:538-541, d being the Menu of the
\* other instance
setMenuActiveDynamic(d, dynamicMenu) ==
  set_activeMenu(Call(d.st, "editMessageReplyMarkup", <<>>, d.val.rows), dynamicMenu)

\* setMenuActive, callback-handler.ts:536-549, a being the other instance
setMenuActiveInstance(a, m, builtMenu) ==
  IF ~Ok(a.st) THEN a.st
  ELSE IF a.kind = "layout" THEN Throw(a.st, "TypeError")
  ELSE IF a.kind = "builder"
  THEN setMenuActiveDynamic(toMenu(a.st, a.val, TRUE), a.val)
  ELSE setMenuActiveFull(a.st, m, builtMenu)

\* setMenuActive, callback-handler.ts:530-549, v being the verdict of the
\* loop over the old buttons
setMenuActiveDiff(S, m, builtMenu, v) ==
  IF v = "throw" THEN Throw(S, "TypeError")
  ELSE IF v = "true" THEN Call(S, "editMessageReplyMarkup", <<>>, builtMenu.rows)
  ELSE setMenuActiveInstance(buildAnotherInstance(S, m), m, builtMenu)

\* setMenuActive, callback-handler.ts:513-549, r being the Menu built
setMenuActiveBuilt(r, m, isUpdating, oldButtons, oldText) ==
  IF ~Ok(r.st) THEN r.st
  ELSE IF isUpdating /\ r.st.aMenu # 0 /\ oldText = r.val.text
  THEN setMenuActiveDiff(r.st, m, r.val,
                         anyHasChange(r.st, oldButtons, Flatten(r.val.rows), 1))
  ELSE setMenuActiveFull(r.st, m, r.val)

\* setMenuActive(ctx, menu), callback-handler.ts:503-550
setMenuActive(S, m) ==
  IF ~Ok(S) THEN S
  ELSE IF isChanged(S, m) /\ ~hasAnyChange(S, m, {ChangeDraw, ChangeText, ChangeUpdate})
  THEN updateMenuContent(S, m)
  ELSE setMenuActiveBuilt(toMenu(S, m, FALSE), m, hasChange(S, m, ChangeUpdate),
                          S.bdicts[S.menus[m].buttons], S.menus[m].text)

----------------------------------------------------------------------------
(* Results of button actions, src/unnamed/part_005:6-92 *)

NoLayout == [hasId |-> FALSE, id |-> <<>>, text |-> <<>>, buttons |-> <<>>]

\* undefined
NoRes == [obj |-> FALSE, navigate |-> NoNav,
          hide |-> [has |-> FALSE, x |-> Const(FALSE)],
          full |-> [has |-> FALSE, x |-> Const(FALSE)],
          text |-> [has |-> FALSE, s |-> <<>>],
          message |-> [has |-> FALSE, s |-> <<>>],
          close |-> [has |-> FALSE, v |-> FALSE],
          closeWith |-> [has |-> FALSE, s |-> <<>>],
          menu |-> [k |-> "none", layout |-> NoLayout],
          update |-> FALSE, keepPreviousValue |-> TRUE, value |-> 0]

\* {}
EmptyRes == [NoRes EXCEPT !.obj = TRUE]

\* isButtonActionResultLike(value), helpers.ts:41-52; value 0 is undefined
isButtonActionResultLike(a) ==
  /\ a.obj
  /\ \/ a.navigate.t # "none"
     \/ a.hide.has /\ ~a.hide.x.isFn
     \/ a.text.has
     \/ a.full.has /\ ~a.full.x.isFn
     \/ a.message.has
     \/ a.closeWith.has
     \/ a.close.has
     \/ a.value # 0

\* a % b of JavaScript for b > 0: the sign of the result is that of a
JsRem(a, b) == IF a >= 0 THEN a % b ELSE -((-a) % b)

\* as navigateIndex, but counting a negative value back from the size of
\* the tree
navigateIndexFromSize(value, lastMenuIndex) ==
  IF value < 0 THEN value + lastMenuIndex + 1 ELSE value

\* the index the closure navigate looks up, menu-builder.ts:575-579
navigateIndex(value, lastMenuIndex) ==
  IF value < 0 /\ value >= -lastMenuIndex
  THEN LET i == JsRem(value, lastMenuIndex)
       IN IF i < 0 THEN i + lastMenuIndex ELSE i
  ELSE value

\* arr[index] of a JavaScript array of handles: 0 (undefined) out of range
ArrayAt(arr, index) == IF index >= 0 /\ index < Len(arr) THEN arr[index + 1] ELSE 0

\* what the closure navigate resolves a number to, menu-builder.ts:574-586:
\* the menu and the index looked up, or the error thrown
navigateNumber(S, that, value) ==
  IF S.menus[that].reg = 0 THEN [err |-> "TypeError", target |-> 0, index |-> -1]
  ELSE IF ArrayAt(S.regs[S.menus[that].reg].byIndex,
                  navigateIndex(value, S.menus[that].lastMenuIndex)) = 0
  THEN [err |-> "Given menu index was out of range", target |-> 0,
        index |-> navigateIndex(value, S.menus[that].lastMenuIndex)]
  ELSE [err |-> "none",
        target |-> ArrayAt(S.regs[S.menus[that].reg].byIndex,
                           navigateIndex(value, S.menus[that].lastMenuIndex)),
        index |-> navigateIndex(value, S.menus[that].lastMenuIndex)]

\* menu-builder.ts:611-624: a path that does not end in a slash and is not
\* found from `that' is looked up from the registered menu it starts with
navigateRegistered(S, v, found) ==
  IF found = 0 \/ ~v.abs THEN [err |-> "Menu with path is not found", target |-> 0, index |-> -1]
  ELSE IF getChildByPath(S, found, v.segs) = -1
  THEN [err |-> "TypeError", target |-> 0, index |-> -1]
  ELSE IF getChildByPath(S, found, v.segs) = 0
  THEN [err |-> "Menu with path is not found", target |-> 0, index |-> -1]
  ELSE [err |-> "none", target |-> getChildByPath(S, found, v.segs), index |-> -1]

\* menu-builder.ts:602-625, t being what that.getChildByPath(value) gave
navigatePath(S, v, t) ==
  IF t = -1 THEN [err |-> "TypeError", target |-> 0, index |-> -1]
  ELSE IF t # 0 THEN [err |-> "none", target |-> t, index |-> -1]
  ELSE IF v.slash THEN [err |-> "Menu by path is not found", target |-> 0, index |-> -1]
  ELSE navigateRegistered(S, v, IF v.segs = <<>> THEN 0
                                ELSE getMenuById(S, Head(v.segs)))

\* menu-builder.ts:627-633
navigateId(S, that, v) ==
  IF S.menus[that].reg = 0 THEN [err |-> "TypeError", target |-> 0, index |-> -1]
  ELSE IF v.segs # <<>> /\ Head(v.segs) \in DOMAIN S.regs[S.menus[that].reg].byId
  THEN [err |-> "none", target |-> S.regs[S.menus[that].reg].byId[Head(v.segs)],
        index |-> -1]
  ELSE [err |-> "Menu with id is not found", target |-> 0, index |-> -1]

\* menu-builder.ts:602-633 for the value v that lines 596-600 made absolute
navigateString(S, that, v) ==
  IF v.abs \/ v.slash \/ Len(v.segs) > 1
  THEN navigatePath(S, v, getChildByPath(S, that, v.segs))
  ELSE navigateId(S, that, v)

\* what the closure navigate resolves its value to, menu-builder.ts:574-636
navigateResolve(S, that, value) ==
  IF value.t = "num" THEN navigateNumber(S, that, value.n)
  ELSE IF value.t # "str"
  THEN [err |-> "Invalid parameter type for navigation button", target |-> 0,
        index |-> -1]
  ELSE IF \/ value.abs /\ value.slash /\ value.segs = path(S, that)
          \/ ~value.abs /\ ~value.slash /\ value.segs = <<S.menus[that].id>>
  THEN [err |-> "It is not possible to create navigation button for the same menu",
        target |-> 0, index |-> -1]
  ELSE IF ~value.abs /\ value.segs # <<>>
          /\ Head(value.segs) \in {<<".">>, <<".", ".">>}
  THEN navigateString(S, that, NavStr(TRUE, resolve(path(S, that), value.segs), TRUE))
  ELSE navigateString(S, that, value)

\* return CBHandler.setMenuActive(ctx, menu), or throw, menu-builder.ts:583-636
navigateTo(S, r) ==
  IF r.err # "none" THEN Throw(S, r.err)
  ELSE setMenuActive([S EXCEPT !.probe.navIndex = r.index,
                               !.probe.navTarget = r.target], r.target)

\* the closure navigate of navigation(), menu-builder.ts:568-637; `that' is
\* the menu navigation() was called on
navigate(S, that, value) == navigateTo(S, navigateResolve(S, that, value))

\* the target of a result's navigate, callback-handler.ts:582-599: a menu,
\* 0 (undefined) or -1 (a TypeError)
navigateTarget(S, targetMenu, nav) ==
  LET root == S.menus[targetMenu].rootMenu IN
  IF root = 0 THEN -1
  ELSE IF nav.t = "num" THEN getChildWithIndex(S, root, nav.n)
  ELSE IF nav.abs /\ IsPrefix(path(S, root), nav.segs)
          /\ (nav.slash \/ Len(nav.segs) > Len(path(S, root)))
       THEN getChildByPath(S, root, nav.segs)
  ELSE IF nav.abs
       THEN LET firstPart == IF nav.segs = <<>> THEN <<>>
                             ELSE IF nav.slash \/ Len(nav.segs) > 1 THEN Head(nav.segs)
                             ELSE SubSeq(Head(nav.segs), 1, Len(Head(nav.segs)) - 1)
                found == DictGet(S.menuDict.d, firstPart)
            IN IF found = 0 THEN 0 ELSE getChildByPath(S, found, nav.segs)
  ELSE IF Len(nav.segs) = 1 /\ ~nav.slash THEN DictGet(S.menuDict.d, Head(nav.segs))
  ELSE 0

\* if (navigate), callback-handler.ts:581
navigateTruthy(nav) ==
  \/ nav.t = "num" /\ nav.n # 0
  \/ nav.t = "str" /\ (nav.abs \/ nav.segs # <<>>)

\* callback-handler.ts:642-648 and 692-698: the value goes on the stack vs
\* of the parent (pushValue in the object branch, push in the function
\* branch) and the new menu shares that stack
execMenuShare(vs, builtMenu, bid, value, named) ==
  _getValueStack(IF named THEN pushValue(vs.st, vs.val, bid, value)
                 ELSE [vs.st EXCEPT !.stacks[vs.val].items = Append(@, value)],
                 builtMenu, vs.val).st

\* callback-handler.ts:642-651 and 692-700, S having the new menu attached
execMenuShow(S, b, builtMenu, action, named) ==
  IF ~Ok(S) THEN S
  ELSE setMenuActive(
         IF action.keepPreviousValue
         THEN execMenuShare(_getValueStack(S, S.buttons[b].parent, 0), builtMenu,
                            S.buttons[b].id, action.value, named)
         ELSE S,
         builtMenu)

\* callback-handler.ts:639-651, c being the menu fromObject gave
execMenuObjectBuilt(c, b, action) ==
  execMenuShow(_attach(set_dynamicMenu(c.st, b, c.val), c.val, c.st.buttons[b].parent),
               b, c.val, action, TRUE)

\* callback-handler.ts:638, n being the id of the layout
execMenuObjectId(n, b, action) ==
  execMenuObjectBuilt(fromObject(n.st, [action.menu.layout EXCEPT !.hasId = TRUE,
                                                                  !.id = n.val]),
                      b, action)

\* callback-handler.ts:633-651, S being the state after line 631
execMenuObjectNew(S, action, b) ==
  IF ~Ok(S) THEN S
  ELSE execMenuObjectId(IF action.menu.layout.hasId
                        THEN [st |-> S, val |-> action.menu.layout.id]
                        ELSE nanoid(S),
                        b, action)

\* the branch `typeof menu === "object"', callback-handler.ts:624-652
execMenuObject(S, action, b) ==
  execMenuObjectNew(IF S.buttons[b].dynamicMenu # 0
                    THEN _detach(S, S.buttons[b].dynamicMenu) ELSE S,
                    action, b)

\* callback-handler.ts:670-700, c being the menu fromObject gave
execMenuFunctionBuilt(c, b, action, dyn) ==
  execMenuShow(_attach(set_dynamicMenu([c.st EXCEPT !.menus[c.val].dyn = dyn,
                                                    !.menus[c.val].changeFlags =
                                                      {ChangeDraw}],
                                       b, c.val),
                       c.val, dyn.parent),
               b, c.val, action, FALSE)

\* callback-handler.ts:667-700, S being the state after line 665
execMenuFunctionNew(S, layout, b, action, id) ==
  IF ~Ok(S) THEN S
  ELSE execMenuFunctionBuilt(fromObject(S, [layout EXCEPT !.hasId = TRUE, !.id = id]),
                             b, action,
                             [k |-> "button", button |-> b,
                              parent |-> S.buttons[b].parent, id |-> id])

\* callback-handler.ts:659-700, f being the layout the function gave
execMenuFunctionLayout(f, b, action, id) ==
  execMenuFunctionNew(IF f.st.buttons[b].dynamicMenu # 0
                      THEN _detach(f.st, f.st.buttons[b].dynamicMenu) ELSE f.st,
                      f.val, b, action, id)

\* callback-handler.ts:658-700, n being the id of the dynamic context
execMenuFunctionCtx(n, b, action) ==
  execMenuFunctionLayout(callLayoutFn(n.st), b, action, n.val)

\* makeDynamicMenuContext(parent, button.dynamicMenu?.id),
\* callback-handler.ts:657 and 758-771: the id of the context
makeDynamicMenuContext(S, b) ==
  IF S.buttons[b].dynamicMenu # 0
  THEN [st |-> S, val |-> S.menus[S.buttons[b].dynamicMenu].id]
  ELSE nanoid(S)

\* the branch `typeof menu === "function"', callback-handler.ts:653-701
execMenuFunction(S, action, b) ==
  execMenuFunctionCtx(
    makeDynamicMenuContext(_getValueStack(S, S.buttons[b].parent, 0).st, b),
    b, action)

\* the branch of close and closeWith, callback-handler.ts:605-623
execClose(S, action, parent, hasMsg) ==
  IF action.closeWith.has /\ Trim(action.closeWith.s) # <<>>
  THEN deleteMenu(closeMenu(S, hasMsg, Trim(action.closeWith.s),
                            S.menus[parent].text = Trim(action.closeWith.s)),
                  parent)
  ELSE deleteMenu(closeMenu(S, hasMsg, <<>>, FALSE), parent)

\* the probe notes that the dispatch entered branch e of execButtonAction
Effect(S, e) == [S EXCEPT !.probe.effects = @ \cup {e}]

\* if (target) setMenuActive(ctx, target), callback-handler.ts:601-603
execNavigate(S, target) ==
  IF target = -1 THEN Throw(S, "TypeError")
  ELSE IF target # 0 THEN setMenuActive(Effect(S, "navigate"), target)
  ELSE S

\* close || typeof closeWith === 'string', callback-handler.ts:605
execCloses(action) == (action.close.has /\ action.close.v) \/ action.closeWith.has

\* the chain of branches of execButtonAction, callback-handler.ts:581-719
execBranch(S, action, b, targetMenu, hasMsg) ==
  IF navigateTruthy(action.navigate)
  THEN execNavigate(S, navigateTarget(S, targetMenu, action.navigate))
  ELSE IF execCloses(action)
  THEN execClose(Effect(S, "close"), action, S.buttons[b].parent, hasMsg)
  ELSE IF action.menu.k = "object" THEN execMenuObject(Effect(S, "menu"), action, b)
  ELSE IF action.menu.k = "function"
  THEN execMenuFunction(Effect(S, "menu"), action, b)
  ELSE IF action.update
  THEN setMenuActive([Effect(S, "update")
                        EXCEPT !.menus[targetMenu].changeFlags = {ChangeUpdate}],
                     targetMenu)
  ELSE IF ChangeText \in S.menus[S.buttons[b].parent].changeFlags
  THEN setMenuActive(S, S.buttons[b].parent)
  ELSE IF S.menus[targetMenu].changeFlags # ChangeNone
  THEN setMenuActive(S, targetMenu)
  ELSE IF S.buttons[b].changeFlags # ChangeNone
  THEN updateMenuContent(S, S.buttons[b].parent)
  ELSE S

\* isValueAdded, callback-handler.ts:579, 645, 695
isValueAdded(action) ==
  /\ ~navigateTruthy(action.navigate)
  /\ ~execCloses(action)
  /\ action.menu.k # "none"
  /\ action.keepPreviousValue

\* the end of execButtonAction, callback-handler.ts:721-734: what it returns
\* is kept as the probe's ret ("stack": the value stack of the menu)
execValue(S, action, b) ==
  IF ~Ok(S) THEN S
  ELSE IF action.value = 0 THEN [S EXCEPT !.probe.ret = "SUCCESS"]
  ELSE IF action.keepPreviousValue /\ ~isValueAdded(action)
  THEN IF S.menus[S.buttons[b].parent].vstack = 0 THEN Throw(S, "TypeError")
       ELSE [pushValue(S, S.menus[S.buttons[b].parent].vstack, S.buttons[b].id,
                       action.value)
               EXCEPT !.probe.ret = "stack"]
  ELSE [S EXCEPT !.probe.ret = IF S.menus[S.buttons[b].parent].vstack # 0
                               THEN "stack" ELSE "value"]

\* the change flags of the button and of its menu, as the probe keeps them
\* before callback-handler.ts:576
execProbeBefore(S, b) ==
  [S EXCEPT !.probe.applied = TRUE,
            !.probe.bf0 = S.buttons[b].changeFlags,
            !.probe.mf0 = S.menus[S.buttons[b].parent].changeFlags]

\* the same after callback-handler.ts:577
execProbeAfter(S, b) ==
  [S EXCEPT !.probe.bf1 = S.buttons[b].changeFlags,
            !.probe.mf1 = S.menus[S.buttons[b].parent].changeFlags]

\* the destructuring with its defaults and the writes of
\* callback-handler.ts:561-577
execApply(S, action, b, targetMenu) ==
  execProbeAfter(
    menu_set_text(
      setFull(
        setHide(
          setText(execProbeBefore(S, b), b,
                  IF action.text.has THEN action.text.s ELSE S.buttons[b].text),
          b, IF action.hide.has THEN action.hide.x ELSE Const(S.buttons[b].hidden)),
        b, IF action.full.has THEN action.full.x ELSE Const(S.buttons[b].full)),
      S.buttons[b].parent,
      IF action.message.has THEN action.message.s ELSE S.menus[targetMenu].text),
    b)

\* execButtonAction(action, ctx, button, targetMenu),
\* callback-handler.ts:557-735; hasMsg: the event carries a message id
execButtonAction(S, action, b, targetMenu, hasMsg) ==
  IF ~Ok(S) THEN S
  ELSE IF ~isButtonActionResultLike(action) THEN [S EXCEPT !.probe.ret = "FAIL"]
  ELSE execValue(execBranch(execApply(S, action, b, targetMenu), action, b,
                            targetMenu, hasMsg),
                 action, b)

\* a handler that calls the hook for unhandled queries, and calls it again
unhandledTwice(S) ==
  IF "unhandled" \in S.hooks THEN [S EXCEPT !.probe.unhandled = @ + 2] ELSE S

\* that._onUnhandledCallbackQuery?.(ctx), callback-handler.ts:129, 139
unhandled(S) ==
  IF "unhandled" \in S.hooks THEN [S EXCEPT !.probe.unhandled = @ + 1] ELSE S

\* fun.call(button, ...), callback-handler.ts:157, S being the state after
\* targetMenu.toMenu(true): the closure of menu(), the closure of
\* navigation(), or a function of the user, which throws when S.throws
onPress(S, b, fun) ==
  IF ~Ok(S) THEN S
  ELSE IF fun.k = "inner" THEN setMenuActive(S, fun.target)
  ELSE IF fun.k = "nav" THEN navigate(S, S.buttons[b].parent, fun.val)
  ELSE IF S.throws THEN Throw([S EXCEPT !.probe.ran = @ + 1], "UserError")
  ELSE [S EXCEPT !.probe.ran = @ + 1]

\* that._onMethodMissing?.(button.text, button.path, callbackQuery,
\* previousValues), callback-handler.ts:152
onMethodMissing(S, b) ==
  IF "missing" \in S.hooks
  THEN [S EXCEPT !.probe.missing = @ + 1,
                 !.probe.missingArgs = <<S.buttons[b].text,
                                         path(S, S.buttons[b].parent)
                                           \o <<S.buttons[b].id>>>>]
  ELSE S

\* callback-handler.ts:151-158
onPressOrMissing(S, b, targetMenu) ==
  IF S.buttons[b].onPress.k = "none" THEN onMethodMissing(S, b)
  ELSE onPress(toMenu(S, targetMenu, TRUE).st, b, S.buttons[b].onPress)

\* a dispatch that returns with _activeMenu as the try set it
onCallbackQueryDoneKept(S, mId, previousMenu, targetMenu) ==
  IF ~Ok(S) THEN S
  ELSE IF mId = S.menus[targetMenu].id
          /\ S.menus[previousMenu].buttons # S.menus[targetMenu].buttons
  THEN [S EXCEPT !.menuDict.d = DictPut(@, mId, targetMenu)]
  ELSE S

\* callback-handler.ts:178-185
onCallbackQueryDone(S, mId, previousMenu, targetMenu) ==
  IF ~Ok(S) THEN S
  ELSE IF mId = S.menus[targetMenu].id
          /\ S.menus[previousMenu].buttons # S.menus[targetMenu].buttons
  THEN [S EXCEPT !.menuDict.d = DictPut(@, mId, targetMenu), !.aMenu = 0]
  ELSE [S EXCEPT !.aMenu = 0]

\* a dispatch that drops what the handler of a missing method returns
valueOfFunction(S, b, result) ==
  IF S.buttons[b].onPress.k = "user" THEN result ELSE NoRes

\* the value of callback-handler.ts:150-158: the function of a button of the
\* user and the handler of a missing method return `result', the closures
\* of menu() and navigation() return nothing, and so does the call of a
\* handler that is not installed
valueOf(S, b, result) ==
  IF S.buttons[b].onPress.k = "user" THEN result
  ELSE IF S.buttons[b].onPress.k = "none" /\ "missing" \in S.hooks THEN result
  ELSE NoRes

\* the body of try, callback-handler.ts:147-185, without generators
onCallbackQueryTry(S, b, targetMenu, mId, previousMenu, result, hasMsg) ==
  onCallbackQueryDone(
    execButtonAction(
      onPressOrMissing(_getValueStack(S, targetMenu, 0).st, b, targetMenu),
      valueOf(S, b, result),
      b, targetMenu, hasMsg),
    mId, previousMenu, targetMenu)

\* a catch that hands the error to the handler of setOnError() and throws
\* it again
onCallbackQueryRethrow(T) ==
  IF Ok(T) THEN T
  ELSE IF "error" \in T.hooks
  THEN [T EXCEPT !.aMenu = 0, !.probe.errors = @ + 1, !.probe.ret = T.err]
  ELSE [T EXCEPT !.aMenu = 0]

\* catch (e), callback-handler.ts:187-195
onCallbackQueryCatch(T) ==
  IF Ok(T) THEN T
  ELSE IF "error" \in T.hooks
  THEN [T EXCEPT !.aMenu = 0, !.probe.errors = @ + 1, !.probe.ret = T.err,
                 !.err = "none"]
  ELSE [T EXCEPT !.aMenu = 0]

\* callback-handler.ts:138-195, b being the button the data names
onCallbackQueryButton(S, b, mId, previousMenu, result, hasMsg) ==
  IF b = -1 THEN Throw(S, "TypeError")
  ELSE IF b = 0 THEN unhandled(S)
  ELSE onCallbackQueryCatch(
         onCallbackQueryTry([S EXCEPT !.aMenu = S.buttons[b].parent], b,
                            S.buttons[b].parent, mId, previousMenu, result, hasMsg))

\* callback-handler.ts:127-195, S being the state after the query hook
onCallbackQueryData(S, data, result, hasMsg) ==
  IF ~S.menuDict.def THEN unhandled(S)
  ELSE onCallbackQueryButton(
         S,
         IF DictGet(S.menuDict.d, Head(data.path)) = 0 THEN 0
         ELSE getMenuItemByPath(S, DictGet(S.menuDict.d, Head(data.path)),
                                data.path, data.id),
         Head(data.path), DictGet(S.menuDict.d, Head(data.path)), result, hasMsg)

\* onCallbackQuery(ctx), callback-handler.ts:119-196, for an event whose
\* data is the path of a menu followed by the id of a button
onCallbackQuery(S, data, result, hasMsg) ==
  onCallbackQueryData(IF "query" \in S.hooks THEN [S EXCEPT !.probe.queries = @ + 1]
                      ELSE S,
                      data, result, hasMsg)

----------------------------------------------------------------------------
(* The programs that are run: a tree, its callbacks and the events. *)

\* texts and ids
Str1(a) == <<a>>
Str2(a, b) == <<a, b>>
Str3(a, b, c) == <<a, b, c>>

\* a heap with no object and a handler just constructed
EmptyHeap == [menus |-> <<>>, buttons |-> <<>>, bdicts |-> <<>>, regs |-> <<>>,
              stacks |-> <<>>, menuDict |-> [def |-> FALSE, d |-> <<>>],
              kActive |-> 0, aMenu |-> 0, env |-> <<FALSE>>, nano |-> 0,
              hooks |-> {"query", "unhandled", "missing"}, isStrict |-> FALSE,
              pending |-> <<>>,
              calls |-> <<>>, err |-> "none", oracle |-> <<>>, fnCalls |-> 0,
              failAt |-> 0, throws |-> FALSE,
              probe |-> NoProbe]

\* what one step leaves behind for the properties to read: the operation,
\* its menu, its button and its other arguments, the result the function of
\* the user returned, the error that came out of it, the calls of the
\* transport in their order, the probe, the Menu that was returned, and how
\* often a layout-producing function of the user was called
NoLast == [op |-> "init", m |-> 0, b |-> 0, res |-> NoRes, arg |-> <<>>,
           gen |-> <<>>, failAt |-> 0, throws |-> FALSE, fnCalls |-> 0,
           err |-> "none", calls |-> <<>>, probe |-> NoProbe, ret |-> NoMenu]

\* the state after a step that ended in S; n is 1 for a step on a tree that
\* is shown
CommitIn(S, info, n, maxMenus, maxButtons) ==
  /\ steps + n <= MaxSteps
  /\ Len(S.menus) <= maxMenus
  /\ Len(S.buttons) <= maxButtons
  /\ S.nano <= MaxNano
  /\ menus' = S.menus
  /\ buttons' = S.buttons
  /\ bdicts' = S.bdicts
  /\ regs' = S.regs
  /\ stacks' = S.stacks
  /\ menuDict' = S.menuDict
  /\ kActive' = S.kActive
  /\ aMenu' = S.aMenu
  /\ env' = S.env
  /\ nano' = S.nano
  /\ hooks' = S.hooks
  /\ isStrict' = S.isStrict
  /\ pending' = S.pending
  /\ last' = [info EXCEPT !.err = S.err, !.calls = S.calls, !.probe = S.probe,
                          !.fnCalls = S.fnCalls]
  /\ steps' = steps + n

\* such a step within the bounds of the runs
Commit(S, info, n) == CommitIn(S, info, n, MaxMenus, MaxButtons)

\* the variables hold the heap S
Holds(S) ==
  /\ menus = S.menus
  /\ buttons = S.buttons
  /\ bdicts = S.bdicts
  /\ regs = S.regs
  /\ stacks = S.stacks
  /\ menuDict = S.menuDict
  /\ kActive = S.kActive
  /\ aMenu = S.aMenu
  /\ env = S.env
  /\ nano = S.nano
  /\ hooks = S.hooks
  /\ isStrict = S.isStrict
  /\ pending = S.pending
  /\ last = NoLast
  /\ steps = 0

\* the layout a result hands over as its menu, and the one a
\* layout-producing function returns: one button with a function of the user
DynLayout ==
  [hasId |-> FALSE, id |-> <<>>, text |-> Str3("D", "y", "n"),
   buttons |-> <<[id |-> Str1("d"), text |-> Str1("D"), kind |-> "button",
                  full |-> Const(FALSE), hide |-> Const(FALSE), url |-> FALSE,
                  onPress |-> TRUE]>>]

\* { menu: <a layout-producing function>, value: 1 }
MenuFunctionRes ==
  [EmptyRes EXCEPT !.menu = [k |-> "function", layout |-> NoLayout], !.value = 1]

\* the results the functions of the user return
Results ==
  { NoRes,
    [EmptyRes EXCEPT !.value = 1],
    [EmptyRes EXCEPT !.text = [has |-> TRUE, s |-> Str1("X")]],
    [EmptyRes EXCEPT !.text = [has |-> TRUE, s |-> Str1("Y")]],
    [EmptyRes EXCEPT !.hide = [has |-> TRUE, x |-> Const(TRUE)]],
    [EmptyRes EXCEPT !.full = [has |-> TRUE, x |-> Const(TRUE)]],
    [EmptyRes EXCEPT !.message = [has |-> TRUE, s |-> Str1("M")]],
    [EmptyRes EXCEPT !.close = [has |-> TRUE, v |-> TRUE]],
    [EmptyRes EXCEPT !.menu = [k |-> "object", layout |-> DynLayout], !.value = 1],
    MenuFunctionRes,
    [EmptyRes EXCEPT !.update = TRUE, !.value = 1] }

\* the menu made last
LastMenu(S) == Len(S.menus)

\* .setOnPress(f).end() on the button nb just made, f a function of the user
UserButtonEnd(nb) == item_end(setOnPress(nb.st, nb.val, PressUser), nb.val)

\* .button(text, id).setOnPress(f).end() on menu m
UserButton(S, m, text, id) == UserButtonEnd(button(S, m, text, id))

\* .setHide(h).setOnPress(f).end() on the button nb just made, h being the
\* function env[1] of the user
HideButtonEnd(nb) ==
  item_end(setOnPress(setHide(nb.st, nb.val, Fn(1)), nb.val, PressUser), nb.val)

\* .navigation(text, value, id).end() on menu m
NavigationButton(S, m, text, value, id) ==
  fromObjectLabel(navigation(S, m, text, value, id))

\* the root of BuiltTree and its two buttons
BuiltRoot ==
  UserButton(UserButton(new_MenuBuilder(EmptyHeap, Str2("H", "i"), Str1("r"), 0).st,
                        1, Str1("A"), Str1("x")),
             1, Str2(" ", "U"), Str1("u"))

\* the submenu sub of BuiltTree gets its two buttons
BuiltSub(sub) ==
  NavigationButton(HideButtonEnd(button(sub.st, sub.val, Str1("B"), Str1("y"))),
                   sub.val, Str3("B", "c", "k"), NavNum(-1), Str1("k"))

\* the tree of the dispatch runs, built with the builder:
\*   new MenuBuilder("Hi", "r")
\*     .button("A", "x").setOnPress(f).end()
\*     .button(" U", "u").setOnPress(f).end()
\*     .menu("Sub", "Go", "s", "g")
\*       .button("B", "y").setHide(h).setOnPress(f).end()
\*       .navigation("Bck", -1, "k").end()
BuiltTree ==
  BuiltSub(menu(BuiltRoot, 1, Str3("S", "u", "b"), Str2("G", "o"), Given(Str1("s")),
                Given(Str1("g")), Const(FALSE), Const(FALSE)))

\* BuiltTree after showMenu(ctx, root)
ShownTree == [showMenu(BuiltTree, 1) EXCEPT !.calls = <<>>, !.probe = NoProbe]

InitDispatch == Holds(ShownTree)

\* a callback_query event for a button b that a keyboard sent before shows,
\* with the data that keyboard carries for it; the function of a button of
\* the user returns res, the closures of menu() and navigation() return
\* nothing; hasMsg: the event carries the id of its message; failAt: the
\* call of the transport that is rejected, if any; throws: the function of
\* the user throws
PressWith(b, res, hasMsg, failAt, throws) ==
  /\ buttons[b].builtItem.set
  /\ ~buttons[b].url
  /\ \/ buttons[b].onPress.k = "user"
     \/ buttons[b].onPress.k = "none" /\ ~throws
     \/ res = NoRes /\ ~throws
  /\ hasMsg \/ res.close.has
  /\ Commit(onCallbackQuery([Heap EXCEPT !.oracle = <<DynLayout>>,
                                         !.failAt = failAt, !.throws = throws],
                            [path |-> buttons[b].builtItem.cbPath,
                             id |-> buttons[b].builtItem.cbId],
                            res, hasMsg),
            [NoLast EXCEPT !.op = "press", !.b = b, !.res = res,
                           !.arg = IF hasMsg THEN <<"msg">> ELSE <<>>,
                           !.failAt = failAt, !.throws = throws],
            1)

\* such an event when every call of the transport is delivered and the
\* function of the user returns
PressOf(b, res, hasMsg) == PressWith(b, res, hasMsg, 0, FALSE)

\* such an event, the function of the user returning one of Results
Press ==
  \E b \in 1..Len(buttons), res \in Results, hasMsg \in BOOLEAN :
    PressOf(b, res, hasMsg)

\* an event whose data names no button of a registered tree
PressUnknown ==
  Commit(onCallbackQuery(Heap, [path |-> <<Str1("q")>>, id |-> Str1("x")], NoRes, TRUE),
         [NoLast EXCEPT !.op = "unknown"], 1)

\* setOnError(handler), callback-handler.ts:423-425
SetOnError ==
  /\ "error" \notin hooks
  /\ Commit([Heap EXCEPT !.hooks = @ \cup {"error"}], [NoLast EXCEPT !.op = "hook"], 0)

NextDispatch ==
  \/ Press
  \/ PressUnknown
  \/ SetOnError

SpecDispatch == InitDispatch /\ [][NextDispatch]_vars

----------------------------------------------------------------------------
(* Properties of the dispatch runs. *)

\* the step was the dispatch of a press that reached execButtonAction with a
\* result of the function of the user
Applied(l) == l.op = "press" /\ l.probe.applied

\* a result that asks for none of navigate, close, menu and update
PlainRes(res) ==
  /\ ~navigateTruthy(res.navigate)
  /\ ~execCloses(res)
  /\ res.menu.k = "none"
  /\ ~res.update

\* C1: a dispatched result that omits text, hide, full and message re-applies
\* the current values, and that leaves the change flags of the button and of
\* its menu as they were before callback-handler.ts:576-577
C1_ReappliedValuesKeepFlags ==
  (/\ Applied(last)
   /\ ~last.res.text.has /\ ~last.res.hide.has
   /\ ~last.res.full.has /\ ~last.res.message.has)
  => /\ last.probe.bf1 = last.probe.bf0
     /\ last.probe.mf1 = last.probe.mf0

\* C6: a press of the button that menu() made for a submenu whose Draw flag
\* is still set ends with exactly one call of the transport, an
\* editMessageText that carries the text and the keyboard of the submenu, and
\* with the submenu as the active menu
C6_FirstDrawIsFullReplace ==
  [][\A b \in 1..Len(buttons) :
       (/\ last'.op = "press" /\ last'.b = b
        /\ last'.probe.unhandled = 0
        /\ buttons[b].onPress.k = "inner"
        /\ ChangeDraw \in menus[buttons[b].onPress.target].changeFlags)
       => /\ last'.err = "none" /\ last'.probe.errors = 0
          /\ Len(last'.calls) = 1
          /\ last'.calls[1].op = "editMessageText"
          /\ last'.calls[1].text = menus'[buttons[b].onPress.target].text
          /\ last'.calls[1].kb = menus'[buttons[b].onPress.target].cache.rows
          /\ kActive' = buttons[b].onPress.target]_vars

\* the first event of a run was a press of the button of the submenu, which
\* had never been drawn, and the submenu was shown by an editMessageText
C6_Witness ==
  /\ steps = 1
  /\ last.op = "press"
  /\ buttons[last.b].onPress.k = "inner"
  /\ kActive = buttons[last.b].onPress.target
  /\ Len(last.calls) = 1
  /\ last.calls[1].op = "editMessageText"

\* C7: for a result that asks for none of navigate, close, menu and update,
\* of a button whose text is trimmed, on a menu that was drawn: one
\* editMessageText if the text of the message
\* changed, else one editMessageReplyMarkup if the text, hidden or full of
\* the button changed, else no call of the transport
C7_RenderDecision ==
  [][\A b \in 1..Len(buttons) :
       (/\ Applied(last') /\ last'.b = b
        /\ PlainRes(last'.res)
        /\ last'.err = "none" /\ last'.probe.errors = 0
        /\ buttons[b].text = Trim(buttons[b].text)
        /\ menus[buttons[b].parent].cache.set
        /\ ChangeDraw \notin menus[buttons[b].parent].changeFlags)
       => IF menus'[buttons[b].parent].text # menus[buttons[b].parent].text
          THEN Len(last'.calls) = 1 /\ last'.calls[1].op = "editMessageText"
          ELSE IF \/ buttons'[b].text # buttons[b].text
                  \/ buttons'[b].hidden # buttons[b].hidden
                  \/ buttons'[b].full # buttons[b].full
          THEN Len(last'.calls) = 1 /\ last'.calls[1].op = "editMessageReplyMarkup"
          ELSE last'.calls = <<>>]_vars

\* C8: after a button returned close: true (the event carrying the id of its
\* message), the active menu is cleared, one call of the transport was made
\* and the tree the event named is out of the registry, so that the same
\* event again is unhandled
C8_CloseDeletesTree ==
  (/\ Applied(last) /\ last.res.close.has /\ last.arg # <<>>
   /\ last.err = "none" /\ last.probe.errors = 0)
  => /\ kActive = 0
     /\ Len(last.calls) = 1
     /\ DictGet(menuDict.d, Head(buttons[last.b].builtItem.cbPath)) = 0

\* C9: a press whose result carries a menu, on a button that has a dynamic
\* menu from an earlier press, ends without an error, with the earlier menu
\* detached and a new one attached that has its id and its path
C9_SecondPressReplaces ==
  [][\A b \in 1..Len(buttons) :
       (/\ Applied(last') /\ last'.b = b
        /\ last'.res.menu.k # "none"
        /\ buttons[b].dynamicMenu # 0)
       => /\ last'.err = "none" /\ last'.probe.errors = 0
          /\ buttons'[b].dynamicMenu # 0
          /\ buttons'[b].dynamicMenu # buttons[b].dynamicMenu
          /\ menus'[buttons[b].dynamicMenu].reg = 0
          /\ menus'[buttons'[b].dynamicMenu].reg # 0
          /\ menus'[buttons'[b].dynamicMenu].id = menus[buttons[b].dynamicMenu].id
          /\ path([menus |-> menus'], buttons'[b].dynamicMenu)
               = path([menus |-> menus], buttons[b].dynamicMenu)]_vars

\* C10: a press that replaces the dynamic menu of a button keeps every entry
\* the value stack of the menu of the button held, and the new menu has the
\* parent of the old one and shares that stack
C10_ReplaceKeepsValues ==
  [][\A b \in 1..Len(buttons) :
       (/\ Applied(last') /\ last'.b = b
        /\ last'.res.menu.k # "none"
        /\ buttons[b].dynamicMenu # 0
        /\ menus[buttons[b].parent].vstack # 0)
       => /\ IsPrefix(stacks[menus[buttons[b].parent].vstack].items,
                      stacks'[menus[buttons[b].parent].vstack].items)
          /\ buttons'[b].dynamicMenu # 0
          /\ menus'[buttons'[b].dynamicMenu].parent
               = menus[buttons[b].dynamicMenu].parent
          /\ menus'[buttons'[b].dynamicMenu].vstack
               = menus[buttons[b].parent].vstack]_vars

----------------------------------------------------------------------------
(* Writes and renders on a tree that is shown. *)

\* ShownTree after a press of button x whose function returned
\* MenuFunctionRes: the menu the function produced is the active one
DynTree ==
  [onCallbackQuery([ShownTree EXCEPT !.oracle = <<DynLayout>>],
                   [path |-> <<Str1("r")>>, id |-> Str1("x")], MenuFunctionRes, TRUE)
     EXCEPT !.calls = <<>>, !.probe = NoProbe]

InitRender == Holds(ShownTree) \/ Holds(DynTree)

\* button.text = t
SetButtonText ==
  \E b \in 1..Len(buttons) : \E t \in {Str1("X"), <<>>, buttons[b].text} :
    Commit(item_set_text(Heap, b, t),
           [NoLast EXCEPT !.op = "text", !.b = b, !.arg = t], 1)

\* button.hide = v
SetButtonHide ==
  \E b \in 1..Len(buttons), v \in BOOLEAN :
    Commit(item_set_hide(Heap, b, v),
           [NoLast EXCEPT !.op = "hide", !.b = b, !.arg = <<v>>], 1)

\* button.full = v
SetButtonFull ==
  \E b \in 1..Len(buttons), v \in BOOLEAN :
    Commit(item_set_full(Heap, b, v),
           [NoLast EXCEPT !.op = "full", !.b = b, !.arg = <<v>>], 1)

\* menu.text = t
SetMenuText ==
  \E m \in 1..Len(menus) : \E t \in {Str1("M"), <<>>, menus[m].text} :
    Commit(menu_set_text(Heap, m, t),
           [NoLast EXCEPT !.op = "message", !.m = m, !.arg = t], 1)

\* the step of Render, r being what toMenu gave
Rendered(r, m, soft) ==
  Commit(r.st, [NoLast EXCEPT !.op = "render", !.m = m, !.arg = <<soft>>,
                              !.ret = r.val], 1)

\* menu.toMenu(soft)
Render ==
  \E m \in 1..Len(menus), soft \in BOOLEAN :
    Rendered(toMenu([Heap EXCEPT !.oracle = <<DynLayout>>], m, soft), m, soft)

\* the function of the user behind setHide(h) would return the other value
\* from now on
EnvFlip ==
  Commit([Heap EXCEPT !.env[1] = ~@], [NoLast EXCEPT !.op = "env"], 1)

NextRender ==
  \/ SetButtonText
  \/ SetButtonHide
  \/ SetButtonFull
  \/ SetMenuText
  \/ Render
  \/ EnvFlip

SpecRender == InitRender /\ [][NextRender]_vars

\* button b is a value of the dictionary `buttons' of menu m
Contains(m, b) ==
  \E i \in 1..Len(bdicts[menus[m].buttons]) : bdicts[menus[m].buttons][i] = b

\* C4: toMenu of a menu with no change flag and a cache returns the cache and
\* computes nothing; a write that changes the text, hidden or full of a
\* button sets the matching flag on every menu that contains the button; and
\* a toMenu that is not soft, of a menu with a change flag, returns a new
\* Menu, clears the flags and makes that Menu the cache
C4_CacheAndInvalidation ==
  [][/\ \A m \in 1..Len(menus) :
          (/\ last'.op = "render" /\ last'.m = m
           /\ menus[m].changeFlags = ChangeNone /\ menus[m].cache.set)
          => /\ last'.ret = menus[m].cache
             /\ last'.probe.renders = 0
             /\ menus'[m].cache = menus[m].cache
     /\ \A m \in 1..Len(menus), b \in 1..Len(buttons) :
          (last'.b = b /\ Contains(m, b))
          => /\ (last'.op = "text" /\ buttons'[b].text # buttons[b].text)
                  => ChangeText \in menus'[m].changeFlags
             /\ (last'.op = "hide" /\ buttons'[b].hidden # buttons[b].hidden)
                  => ChangeVisibility \in menus'[m].changeFlags
             /\ (last'.op = "full" /\ buttons'[b].full # buttons[b].full)
                  => ChangeLayout \in menus'[m].changeFlags
     /\ \A m \in 1..Len(menus) :
          (/\ last'.op = "render" /\ last'.m = m /\ last'.arg = <<FALSE>>
           /\ menus[m].changeFlags # ChangeNone)
          => /\ last'.ret.set
             /\ last'.ret.oid # menus[m].cache.oid
             /\ menus'[m].changeFlags = ChangeNone
             /\ menus'[m].cache = last'.ret]_vars

\* what toMenu of menu m would compute now
FreshRender(m) == toMenuItems([Heap EXCEPT !.oracle = <<DynLayout>>], m, TRUE).val

\* C5: the cache of a menu with no change flag (a menu that no function
\* produced) has the text and the rows toMenu would compute now
C5_CleanCacheIsValid ==
  \A m \in 1..Len(menus) :
    (/\ menus[m].changeFlags = ChangeNone
     /\ menus[m].cache.set
     /\ menus[m].dyn.k = "none")
    => /\ menus[m].cache.text = FreshRender(m).text
       /\ menus[m].cache.rows = FreshRender(m).rows

----------------------------------------------------------------------------
(* Trees built step by step, shown, and navigated. *)

\* the ids the menus of a tree get, in the order they are made
TreeIds == <<Str1("r"), Str1("a"), Str1("b"), Str1("c"), Str1("e"), Str1("f")>>

\* new MenuBuilder("Hi", "r")
RootOnly == new_MenuBuilder(EmptyHeap, Str2("H", "i"), TreeIds[1], 0).st

InitTree == Holds(RootOnly)

\* this.menu("Sub", "Go", id, "g" + id) on a menu of the tree
AddMenu ==
  \E this \in 1..Len(menus) :
    /\ ~menuDict.def
    /\ Len(menus) < MaxTree
    /\ Commit(menu(Heap, this, Str3("S", "u", "b"), Str2("G", "o"),
                   Given(TreeIds[Len(menus) + 1]),
                   Given(<<"g">> \o TreeIds[Len(menus) + 1]),
                   Const(FALSE), Const(FALSE)).st,
              [NoLast EXCEPT !.op = "menu", !.m = this], 0)

\* this.navigation("Bck", i, "k").end() on a menu of a tree that has no
\* navigation button yet
AddNavigation ==
  \E this \in 1..Len(menus), i \in (-MaxTree)..(-1) :
    /\ ~menuDict.def
    /\ \A b \in 1..Len(buttons) : buttons[b].onPress.k # "nav"
    /\ Commit(NavigationButton(Heap, this, Str3("B", "c", "k"), NavNum(i), Str1("k")),
              [NoLast EXCEPT !.op = "navigation", !.m = this], 0)

\* showMenu(ctx, root)
Show ==
  /\ ~menuDict.def
  /\ Commit(showMenu(Heap, 1), [NoLast EXCEPT !.op = "show", !.m = 1], 0)

NextTree ==
  \/ AddMenu
  \/ AddNavigation
  \/ Show
  \/ Press

SpecTree == InitTree /\ [][NextTree]_vars

\* C2: in a tree, getChildByPath called on any menu with the path of any
\* menu n returns n
C2_PathRoundTrip ==
  \A n \in 1..Len(menus), m \in 1..Len(menus) :
    getChildByPath(Heap, m, path(Heap, n)) = n

\* a tree of MaxTree menus with a menu two levels below the root, whose path
\* is resolved from a menu of another branch
C2_Witness ==
  /\ Len(menus) = MaxTree
  /\ \E n \in 1..Len(menus), m \in 1..Len(menus) :
       /\ menus[n].parent # 0
       /\ menus[menus[n].parent].parent # 0
       /\ menus[m].parent = 1
       /\ m # menus[n].parent
       /\ getChildByPath(Heap, m, path(Heap, n)) = n

\* the step was the press of a navigation button b whose value is negative
NegativePress(b) ==
  /\ last'.op = "press" /\ last'.b = b
  /\ last'.probe.unhandled = 0
  /\ buttons[b].onPress.k = "nav"
  /\ buttons[b].onPress.val.t = "num"
  /\ buttons[b].onPress.val.n < 0

\* the menus of the tree of menu m in the order they were made (_menuByIndex)
ByIndex(m) == regs[menus[m].reg].byIndex

----------------------------------------------------------------------------
(* Results that ask for more than one of navigate, close, menu and update. *)

\* { close: true }
CloseRes == [EmptyRes EXCEPT !.close = [has |-> TRUE, v |-> TRUE]]

\* { menu: <a layout> }
MenuObjectRes == [EmptyRes EXCEPT !.menu = [k |-> "object", layout |-> DynLayout]]

\* the results of these runs: navigate is the index of the submenu (1) or of
\* the root (0)
ChoiceResults ==
  { NoRes,
    [CloseRes EXCEPT !.navigate = NavNum(1)],
    [MenuObjectRes EXCEPT !.navigate = NavNum(1)],
    [EmptyRes EXCEPT !.navigate = NavNum(1), !.update = TRUE],
    [CloseRes EXCEPT !.navigate = NavNum(0)],
    [CloseRes EXCEPT !.menu = [k |-> "object", layout |-> DynLayout]],
    [CloseRes EXCEPT !.update = TRUE],
    [MenuObjectRes EXCEPT !.closeWith = [has |-> TRUE, s |-> Str3("B", "y", "e")]],
    [MenuObjectRes EXCEPT !.update = TRUE, !.value = 1],
    [MenuFunctionRes EXCEPT !.update = TRUE] }

\* a callback_query event, the function of the user returning one of
\* ChoiceResults
PressChoice ==
  \E b \in 1..Len(buttons), res \in ChoiceResults, hasMsg \in BOOLEAN :
    PressOf(b, res, hasMsg)

NextChoice == PressChoice

SpecChoice == InitDispatch /\ [][NextChoice]_vars

\* the result asks for a menu
MenuGiven(res) == res.menu.k # "none"

\* C11: a dispatch enters at most one of the branches navigate, close, menu
\* and update; a result that carries navigate along with close, closeWith,
\* menu or update enters none but navigate, one that closes and carries menu
\* or update none but close, and one that carries menu and update none but
\* menu
C11_OneEffectByPriority ==
  Applied(last)
  => /\ Cardinality(last.probe.effects) <= 1
     /\ (/\ last.res.navigate.t # "none"
         /\ execCloses(last.res) \/ MenuGiven(last.res) \/ last.res.update)
        => last.probe.effects \subseteq {"navigate"}
     /\ (/\ last.res.navigate.t = "none"
         /\ execCloses(last.res)
         /\ MenuGiven(last.res) \/ last.res.update)
        => last.probe.effects \subseteq {"close"}
     /\ (/\ last.res.navigate.t = "none"
         /\ ~execCloses(last.res)
         /\ MenuGiven(last.res) /\ last.res.update)
        => last.probe.effects \subseteq {"menu"}

----------------------------------------------------------------------------
(* Generators: the function of a button yields its results step by step. *)

\* what a generator yields: undefined, a primitive, null, or an object with
\* the fields of res
YieldUndefined == [k |-> "undefined", res |-> NoRes]
YieldPrimitive == [k |-> "primitive", res |-> NoRes]
YieldNull == [k |-> "null", res |-> NoRes]
YieldObject(res) == [k |-> "object", res |-> res]

\* typeof value !== 'object', callback-handler.ts:477
NotAnObject(value) == value.k = "primitive"

\* this._onGeneratorValueHandler(ctx, value, ...), callback-handler.ts:479
\* and 491: a handler that returns a value of its own without calling
\* back; what it returns is assigned to nextValue
onGeneratorValueHandler(S) ==
  [S EXCEPT !.probe.stepHandled = @ + 1, !.probe.nextValue = "handled"]

\* if (this.isStrict) throw, callback-handler.ts:497-499
handleGeneratorStrict(S) ==
  IF S.isStrict THEN Throw(S, "Unexpected value is yielded") ELSE S

\* one round of the loop after generator.next() gave `value' with done
\* false, callback-handler.ts:476-499; isButtonActionResultLike(null) reads
\* a property of null
handleGeneratorValue(S, value, b, targetMenu, hasMsg) ==
  IF value.k = "undefined" THEN S
  ELSE IF NotAnObject(value)
  THEN IF "generatorValue" \in S.hooks THEN onGeneratorValueHandler(S)
       ELSE handleGeneratorStrict(S)
  ELSE IF value.k = "null" THEN Throw(S, "TypeError")
  ELSE IF isButtonActionResultLike(value.res)
  THEN execButtonAction(S, value.res, b, targetMenu, hasMsg)
  ELSE IF "generatorValue" \in S.hooks THEN onGeneratorValueHandler(S)
  ELSE handleGeneratorStrict(S)

\* handleGenerator(ctx, generator, button, targetMenu),
\* callback-handler.ts:461-501, for a generator that yields the values of
\* `generator' in their order and then returns
\* generator.next(nextValue); nextValue = undefined,
\* callback-handler.ts:468-469: the probe keeps what each call passed
generatorNext(S) ==
  [S EXCEPT !.probe.next = @ + 1,
            !.probe.passed = Append(@, S.probe.nextValue),
            !.probe.nextValue = "undefined"]

\* a loop that takes the first value of the generator and leaves the rest
handleGeneratorFirst(S, generator, b, targetMenu, hasMsg) ==
  IF ~Ok(S) THEN S
  ELSE IF generator = <<>> THEN generatorNext(S)
  ELSE handleGeneratorValue(generatorNext(S), Head(generator), b, targetMenu, hasMsg)

RECURSIVE handleGenerator(_, _, _, _, _)
handleGenerator(S, generator, b, targetMenu, hasMsg) ==
  IF ~Ok(S) THEN S
  ELSE IF generator = <<>> THEN generatorNext(S)
  ELSE handleGenerator(
         handleGeneratorValue(generatorNext(S), Head(generator),
                              b, targetMenu, hasMsg),
         Tail(generator), b, targetMenu, hasMsg)

\* callback-handler.ts:163-175: the handler of setGeneratorHandler() takes
\* the generator, or handleGenerator drives it; then _activeMenu is reset
onCallbackQueryGenerator(S, generator, b, targetMenu, hasMsg) ==
  IF ~Ok(S) THEN S
  ELSE IF "generator" \in S.hooks THEN [S EXCEPT !.aMenu = 0]
  ELSE LET T == handleGenerator(S, generator, b, targetMenu, hasMsg)
       IN IF Ok(T) THEN [T EXCEPT !.aMenu = 0] ELSE T

\* the body of try, callback-handler.ts:147-175, when the function of the
\* button of the user returns a generator
onCallbackQueryTryGenerator(S, b, targetMenu, generator, hasMsg) ==
  onCallbackQueryGenerator(
    onPressOrMissing(_getValueStack(S, targetMenu, 0).st, b, targetMenu),
    generator, b, targetMenu, hasMsg)

\* callback-handler.ts:138-195, b being the button the data names
onCallbackQueryButtonGenerator(S, b, generator, hasMsg) ==
  IF b = -1 THEN Throw(S, "TypeError")
  ELSE IF b = 0 THEN unhandled(S)
  ELSE onCallbackQueryCatch(
         onCallbackQueryTryGenerator([S EXCEPT !.aMenu = S.buttons[b].parent], b,
                                     S.buttons[b].parent, generator, hasMsg))

\* callback-handler.ts:127-195, S being the state after the query hook
onCallbackQueryDataGenerator(S, data, generator, hasMsg) ==
  IF ~S.menuDict.def THEN unhandled(S)
  ELSE onCallbackQueryButtonGenerator(
         S,
         IF DictGet(S.menuDict.d, Head(data.path)) = 0 THEN 0
         ELSE getMenuItemByPath(S, DictGet(S.menuDict.d, Head(data.path)),
                                data.path, data.id),
         generator, hasMsg)

\* onCallbackQuery(ctx), callback-handler.ts:119-196, when the function of
\* the button returns a generator
onCallbackQueryGeneratorEvent(S, data, generator, hasMsg) ==
  onCallbackQueryDataGenerator(
    IF "query" \in S.hooks THEN [S EXCEPT !.probe.queries = @ + 1] ELSE S,
    data, generator, hasMsg)

----------------------------------------------------------------------------
(* The runs with generators. *)

\* values yielded by one generator
MaxYields == 2

\* the values the generators of these runs yield
Yields ==
  { YieldUndefined, YieldPrimitive, YieldNull, YieldObject(EmptyRes),
    YieldObject([EmptyRes EXCEPT !.text = [has |-> TRUE, s |-> Str1("X")]]) }

\* the sequences of at most n of these values
RECURSIVE YieldSeqs(_)
YieldSeqs(n) ==
  IF n = 0 THEN {<<>>}
  ELSE YieldSeqs(n - 1)
       \cup {Append(g, y) : g \in {h \in YieldSeqs(n - 1) : Len(h) = n - 1},
                            y \in Yields}

\* a callback_query event for a button b of the user whose function is a
\* generator function that yields the values of `generator'
PressGeneratorOf(b, generator) ==
  /\ buttons[b].builtItem.set
  /\ ~buttons[b].url
  /\ buttons[b].onPress.k = "user"
  /\ Commit(onCallbackQueryGeneratorEvent(
              Heap, [path |-> buttons[b].builtItem.cbPath,
                     id |-> buttons[b].builtItem.cbId],
              generator, TRUE),
            [NoLast EXCEPT !.op = "generator", !.b = b, !.gen = generator,
                           !.arg = <<"msg">>],
            1)

\* such an event, the generator yielding at most MaxYields of Yields
PressGenerator ==
  \E b \in 1..Len(buttons), generator \in YieldSeqs(MaxYields) :
    PressGeneratorOf(b, generator)

\* handler.isStrict = true, callback-handler.ts:75
SetStrict ==
  /\ ~isStrict
  /\ Commit([Heap EXCEPT !.isStrict = TRUE], [NoLast EXCEPT !.op = "strict"], 0)

\* onGeneratorValue(fun), callback-handler.ts:387-389
OnGeneratorValue ==
  /\ "generatorValue" \notin hooks
  /\ Commit([Heap EXCEPT !.hooks = @ \cup {"generatorValue"}],
            [NoLast EXCEPT !.op = "hook"], 0)

\* setGeneratorHandler(fun), callback-handler.ts:376-378
SetGeneratorHandler ==
  /\ "generator" \notin hooks
  /\ Commit([Heap EXCEPT !.hooks = @ \cup {"generator"}],
            [NoLast EXCEPT !.op = "hook"], 0)

NextGenerator ==
  \/ PressGenerator
  \/ SetStrict
  \/ OnGeneratorValue
  \/ SetGeneratorHandler
  \/ SetOnError

SpecGenerator == InitDispatch /\ [][NextGenerator]_vars

\* the error a dispatch ended with, thrown to the caller or taken by the
\* handler of setOnError()
ErrorOf(l) ==
  IF l.err # "none" THEN l.err
  ELSE IF l.probe.errors > 0 THEN l.probe.ret
  ELSE "none"

\* the yielded value is no object with a field of a result
Unrecognized(y) ==
  y.k \in {"primitive", "null"} \/ (y.k = "object" /\ ~isButtonActionResultLike(y.res))

\* handleGenerator drove the generator of the step, and no handler of
\* onGeneratorValue() is installed
Driven(l) ==
  /\ l.op = "generator"
  /\ l.probe.ran > 0
  /\ "generator" \notin hooks
  /\ "generatorValue" \notin hooks

\* the position of the first value of g that is Unrecognized, or 0
FirstUnrecognized(g) ==
  IF \E i \in 1..Len(g) : Unrecognized(g[i])
  THEN CHOOSE i \in 1..Len(g) :
         Unrecognized(g[i]) /\ \A j \in 1..(i - 1) : ~Unrecognized(g[j])
  ELSE 0

\* C12: with no handler of onGeneratorValue(), a yielded primitive, null or
\* object without a field of a result ends the dispatch with an error at that
\* step when isStrict is set, and is skipped when it is not: the generator
\* is then driven to its end and the dispatch ends without an error
C12_UnrecognizedYield ==
  (Driven(last) /\ FirstUnrecognized(last.gen) # 0)
  => IF isStrict
     THEN /\ ErrorOf(last) # "none"
          /\ last.probe.next = FirstUnrecognized(last.gen)
     ELSE /\ ErrorOf(last) = "none"
          /\ last.probe.next = Len(last.gen) + 1

----------------------------------------------------------------------------
(* The runs with errors: a function of the user that throws, a call of the
   transport that is rejected, a navigation button whose menu is not there,
   a generator that yields what isStrict forbids. *)

\* calls of the transport of one dispatch up to which one may be rejected
MaxFail == 2

\* BuiltTree with .navigation("No", "zz", "n").end() on the root, "zz" being
\* the id of no menu
ErrorTree ==
  NavigationButton(BuiltTree, 1, Str2("N", "o"),
                   NavStr(FALSE, <<Str2("z", "z")>>, FALSE), Str1("n"))

InitError ==
  Holds([showMenu(ErrorTree, 1) EXCEPT !.calls = <<>>, !.probe = NoProbe])

\* the results of these runs
ErrorResults ==
  { NoRes, [EmptyRes EXCEPT !.text = [has |-> TRUE, s |-> Str1("X")]], CloseRes }

\* the generators of these runs
ErrorGenerators ==
  { <<YieldPrimitive>>,
    <<YieldObject([EmptyRes EXCEPT !.text = [has |-> TRUE, s |-> Str1("X")]]),
      YieldObject(EmptyRes)>> }

\* a callback_query event in whose dispatch the function of the user may
\* throw and a call of the transport may be rejected
PressError ==
  \E b \in 1..Len(buttons), res \in ErrorResults, failAt \in 0..MaxFail,
     throws \in BOOLEAN :
    PressWith(b, res, TRUE, failAt, throws)

\* such an event for a button whose function is one of these generators
PressErrorGenerator ==
  \E b \in 1..Len(buttons), generator \in ErrorGenerators :
    PressGeneratorOf(b, generator)

NextError ==
  \/ PressError
  \/ PressErrorGenerator
  \/ SetStrict
  \/ SetOnError

SpecError == InitError /\ [][NextError]_vars

\* the step was the dispatch of a callback_query event
Dispatched(l) == l.op \in {"press", "generator"}

\* C13: an error thrown in a dispatch goes to the handler of setOnError()
\* once and does not leave the dispatch when that handler is installed, and
\* leaves the dispatch when it is not; _activeMenu is undefined after the
\* dispatch either way
C13_ErrorsFunnel ==
  Dispatched(last)
  => /\ aMenu = 0
     /\ IF "error" \in hooks
        THEN last.err = "none" /\ last.probe.errors = last.probe.raised
        ELSE last.probe.errors = 0 /\ (last.probe.raised > 0 <=> last.err # "none")

\* a dispatch in which a call of the transport was rejected after a press, and
\* the handler took the error
C13_Witness ==
  /\ last.op = "press"
  /\ "error" \in hooks
  /\ last.probe.errors = 1
  /\ last.probe.ret = "TransportError"
  /\ last.err = "none"
  /\ aMenu = 0

\* a call of the transport of the step delivered the Menu that menu m caches
Shown(l, m) ==
  \E i \in 1..Len(l.calls) :
    /\ l.calls[i].kb = menus[m].cache.rows
    /\ l.calls[i].op \in {"reply", "editMessageText"}
       => l.calls[i].text = menus[m].cache.text

\* C14: after a dispatch that ended with an error, every menu whose toMenu()
\* stored a new Menu in that dispatch either had that Menu delivered by a call
\* of the transport or still has a change flag set
C14_FailedRenderStaysDirty ==
  (Dispatched(last) /\ ErrorOf(last) # "none")
  => \A m \in last.probe.cached :
       Shown(last, m) \/ menus[m].changeFlags # ChangeNone

----------------------------------------------------------------------------
(* Properties of the registries. *)

\* the menus reached from the menus ms through at most n steps of _children
RECURSIVE Below(_, _)
Below(ms, n) ==
  IF n = 0 THEN ms
  ELSE Below(ms \cup UNION {{menus[m].children[i] : i \in 1..Len(menus[m].children)} :
                            m \in ms},
             n - 1)

\* the menus of the tree of root
TreeOf(root) == Below({root}, Len(menus))

\* the menus that the registries r hold
Registered(r) ==
  {r.byId[k] : k \in DOMAIN r.byId}
    \cup {r.byPath[k] : k \in DOMAIN r.byPath}
    \cup {r.byIndex[i] : i \in 1..Len(r.byIndex)}

\* the registries r hold menu n under its id, its path and its index
RegisteredAt(r, n) ==
  /\ DictGet(r.byId, menus[n].id) = n
  /\ DictGet(r.byPath, path(Heap, n)) = n
  /\ menus[n].index + 1 \in 1..Len(r.byIndex)
  /\ r.byIndex[menus[n].index + 1] = n

\* C15: the registries of the root hold every menu of the tree of the root
\* under its id, its path and its index, and hold no menu that is not of the
\* tree
C15_RegistriesConsistent ==
  /\ menus[1].reg # 0
  /\ \A n \in TreeOf(1) : RegisteredAt(regs[menus[1].reg], n)
  /\ Registered(regs[menus[1].reg]) \subseteq TreeOf(1)

----------------------------------------------------------------------------
(* The runs with dynamic menus whose layout carries an id. *)

\* the results of these runs: { menu: <a layout>, value: 1 }, the layout
\* without an id or with the id of the submenu of BuiltTree
AttachResults ==
  { NoRes,
    [MenuObjectRes EXCEPT !.value = 1],
    [EmptyRes EXCEPT !.value = 1,
                     !.menu = [k |-> "object",
                               layout |-> [DynLayout EXCEPT !.hasId = TRUE,
                                                            !.id = Str1("s")]]] }

\* a callback_query event, the function of the user returning one of
\* AttachResults
PressAttach ==
  \E b \in 1..Len(buttons), res \in AttachResults :
    PressOf(b, res, TRUE)

NextAttach == PressAttach

SpecAttach == InitDispatch /\ [][NextAttach]_vars

\* C16: no two menus of the tree of the root have the same id
C16_IdsUnique ==
  \A n \in TreeOf(1), m \in TreeOf(1) : n # m => menus[n].id # menus[m].id

----------------------------------------------------------------------------
(* The runs that add submenus to a tree that is shown and has dynamic menus. *)

\* the ids the submenus are made with: those of the menus of BuiltTree, the
\* first id nanoid() gives, and one that no menu has
BuildIds == {Str1("r"), Str1("s"), Str2("#", "1"), Str1("n")}

\* this.menu("New", "Go", id, "g" + id) on a menu that is in a tree; an id
\* of nanoid() is known once nanoid() gave it
MenuWithId ==
  \E this \in 1..Len(menus), id \in BuildIds :
    /\ menus[this].reg # 0
    /\ id = Str2("#", "1") => nano >= 1
    /\ Commit(menu(Heap, this, Str3("N", "e", "w"), Str2("G", "o"), Given(id),
                   Given(<<"g">> \o id), Const(FALSE), Const(FALSE)).st,
              [NoLast EXCEPT !.op = "menu", !.m = this, !.arg = <<id>>], 1)

\* a callback_query event, the function of the user returning a layout
\* without an id, a layout-producing function, or nothing
PressBuild ==
  \E b \in 1..Len(buttons),
     res \in {NoRes, [MenuObjectRes EXCEPT !.value = 1], MenuFunctionRes} :
    PressOf(b, res, TRUE)

NextBuild ==
  \/ MenuWithId
  \/ PressBuild

SpecBuild == InitDispatch /\ [][NextBuild]_vars

\* the ids of the menus of the tree of menu m
IdsOfTree(m) == {menus[n].id : n \in TreeOf(menus[m].rootMenu)}

----------------------------------------------------------------------------
(* The runs with navigation: every value is the value of a navigation button
   of the root and of one of the submenu, and the navigate of a result. *)

\* 'zz', '/r/zz/' and MaxMenus + 1: the id, the path and the index of no
\* menu
NavMissing ==
  { NavStr(FALSE, <<Str2("z", "z")>>, FALSE),
    NavStr(TRUE, <<Str1("r"), Str2("z", "z")>>, TRUE),
    NavNum(MaxMenus + 1) }

\* 'r', 's', '/r/', '/r/s/', '.', '..', 0, 1: the menus of BuiltTree by id,
\* by path, relative to the menu of the button, and by index
NavPresent ==
  { NavStr(FALSE, <<Str1("r")>>, FALSE),
    NavStr(FALSE, <<Str1("s")>>, FALSE),
    NavStr(TRUE, <<Str1("r")>>, TRUE),
    NavStr(TRUE, <<Str1("r"), Str1("s")>>, TRUE),
    NavStr(FALSE, <<Str1(".")>>, FALSE),
    NavStr(FALSE, <<Str2(".", ".")>>, FALSE),
    NavNum(0),
    NavNum(1) }

\* -1: an index counted from the end
NavNegative == { NavNum(-1) }

NavValues == NavMissing \cup NavPresent

\* BuiltTree with .navigation("N", v, "n").end() on the root and
\* .navigation("M", v, "m").end() on the submenu
NavTree(v) ==
  NavigationButton(NavigationButton(BuiltTree, 1, Str1("N"), v, Str1("n")),
                   2, Str1("M"), v, Str1("m"))

InitNav ==
  \E v \in NavValues :
    Holds([showMenu(NavTree(v), 1) EXCEPT !.calls = <<>>, !.probe = NoProbe])

\* a callback_query event; the function of a button of the user returns
\* { navigate: v } or nothing
PressNavigate ==
  \E b \in 1..Len(buttons),
     res \in {NoRes} \cup {[EmptyRes EXCEPT !.navigate = v] :
                             v \in NavValues \cup NavNegative} :
    PressOf(b, res, TRUE)

NextNav == PressNavigate

SpecNav == InitNav /\ [][NextNav]_vars

\* the step dispatched a press to a navigation button whose value is v
NavigationPress(l, v) ==
  /\ l.op = "press"
  /\ l.probe.unhandled = 0
  /\ buttons[l.b].onPress = PressNav(v)

\* the step dispatched a press to a button whose function returned
\* { navigate: v }
NavigateResult(l, v) ==
  /\ Applied(l)
  /\ l.res.navigate = v

\* the errors of navigation() for a value that names no menu,
\* menu-builder.ts:581, 609, 623, 633
NavigationErrors ==
  { "Given menu index was out of range", "Menu by path is not found",
    "Menu with path is not found", "Menu with id is not found" }

\* C18: a dispatch whose navigation button, or whose result, names the id,
\* the path or the index of no menu ends with an error of navigation
C18_MissingTargetThrows ==
  \A v \in NavMissing :
    (NavigationPress(last, v) \/ NavigateResult(last, v))
    => last.err \in NavigationErrors

\* the value v names menu m itself: its id, its path, '.', '..' when m is a
\* root, or its index
NamesItself(v, m) ==
  \/ v = NavStr(FALSE, <<menus[m].id>>, FALSE)
  \/ v = NavStr(TRUE, path(Heap, m), TRUE)
  \/ v = NavStr(FALSE, <<Str1(".")>>, FALSE)
  \/ v = NavStr(FALSE, <<Str2(".", ".")>>, FALSE) /\ menus[m].parent = 0
  \/ v = NavNum(menus[m].index)

\* C19: a dispatch whose navigation button, or whose result, names the menu
\* of the button itself throws the error of navigation to the same menu and
\* calls the transport not once
C19_SelfNavigationThrows ==
  \A v \in NavPresent :
    (/\ NavigationPress(last, v) \/ NavigateResult(last, v)
     /\ NamesItself(v, buttons[last.b].parent))
    => /\ last.err = "It is not possible to create navigation button for the same menu"
       /\ last.calls = <<>>

\* C22: when the function of a button returns { navigate: v } and v is a
\* path, a relative path, an id or an index that the resolver of
\* navigation() resolves from the menu of the button to a menu, the dispatch
\* ends without an error, that menu is the active menu and it was sent
C22_ResultNavigateHonoured ==
  \A v \in NavPresent \cup NavNegative :
    (/\ NavigateResult(last, v)
     /\ navigateResolve(Heap, buttons[last.b].parent, v).err = "none")
    => /\ last.err = "none"
       /\ kActive = navigateResolve(Heap, buttons[last.b].parent, v).target
       /\ Len(last.calls) = 1

----------------------------------------------------------------------------
(* The runs with a tree built from a layout: four menus r, a, b, c, made in
   this order, and one button with a negative navigate. *)

\* { text: "K", navigate: -k } under the key "k" followed by the digit k
NavigateEntry(k) ==
  [id |-> Str2("k", Digits[k]), text |-> Str1("K"), kind |-> "navigate",
   full |-> Const(FALSE), hide |-> Const(FALSE), url |-> FALSE, onPress |-> FALSE,
   navigate |-> NavNum(-k)]

\* { text: "Sub", buttons: ... } under the key id
MenuEntry(id, entries) ==
  [id |-> id, text |-> Str3("S", "u", "b"), kind |-> "menu",
   full |-> Const(FALSE), hide |-> Const(FALSE), buttons |-> entries]

\* the entry NavigateEntry(k) for the menu made as number q, if p is q
NavAt(p, q, k) == IF p = q THEN <<NavigateEntry(k)>> ELSE <<>>

\* the buttons of the root: r { a { b { c } } }, r { a, b, c } or
\* r { a { b }, c }, with the navigate in the menu made as number p
LayoutButtons(shape, p, k) ==
  IF shape = "chain"
  THEN NavAt(p, 0, k)
       \o <<MenuEntry(TreeIds[2],
                      NavAt(p, 1, k)
                      \o <<MenuEntry(TreeIds[3],
                                     NavAt(p, 2, k)
                                     \o <<MenuEntry(TreeIds[4], NavAt(p, 3, k))>>)>>)>>
  ELSE IF shape = "fork"
  THEN NavAt(p, 0, k)
       \o <<MenuEntry(TreeIds[2], NavAt(p, 1, k)),
            MenuEntry(TreeIds[3], NavAt(p, 2, k)),
            MenuEntry(TreeIds[4], NavAt(p, 3, k))>>
  ELSE NavAt(p, 0, k)
       \o <<MenuEntry(TreeIds[2],
                      NavAt(p, 1, k) \o <<MenuEntry(TreeIds[3], NavAt(p, 2, k))>>),
            MenuEntry(TreeIds[4], NavAt(p, 3, k))>>

LayoutOf(shape, p, k) ==
  [hasId |-> TRUE, id |-> TreeIds[1], text |-> Str2("H", "i"),
   buttons |-> LayoutButtons(shape, p, k)]

InitLayout == Holds(EmptyHeap)

\* MenuBuilder.fromObject(layout)
BuildLayout ==
  \E shape \in {"chain", "fork", "mixed"}, p \in 0..3, k \in 1..MaxTree :
    /\ Len(menus) = 0
    /\ Commit(fromObject(Heap, LayoutOf(shape, p, k)).st,
              [NoLast EXCEPT !.op = "fromObject", !.arg = <<p, k>>], 0)

\* showMenu(ctx, root) for the tree fromObject returned
ShowLayout ==
  /\ last.op = "fromObject"
  /\ last.err = "none"
  /\ Commit(showMenu(Heap, 1), [NoLast EXCEPT !.op = "show", !.m = 1], 0)

\* this.menu("New", "Go", id, "g" + id) on a menu of the tree that is shown
MenuLater ==
  \E this \in 1..Len(menus) :
    /\ menuDict.def
    /\ Len(menus) < Len(TreeIds)
    /\ Commit(menu(Heap, this, Str3("N", "e", "w"), Str2("G", "o"),
                   Given(TreeIds[Len(menus) + 1]),
                   Given(<<"g">> \o TreeIds[Len(menus) + 1]),
                   Const(FALSE), Const(FALSE)).st,
              [NoLast EXCEPT !.op = "menu", !.m = this], 0)

\* a callback_query event for a button of the tree
PressLayout ==
  \E b \in 1..Len(buttons) :
    /\ menuDict.def
    /\ PressOf(b, NoRes, TRUE)

NextLayout ==
  \/ BuildLayout
  \/ ShowLayout
  \/ MenuLater
  \/ PressLayout

SpecLayout == InitLayout /\ [][NextLayout]_vars

\* the k of the button that NavigateEntry(k) made
KOf(b) == CHOOSE k \in 1..Len(Digits) : Digits[k] = buttons[b].id[2]

\* the step dispatched a press to the button of a NavigateEntry
LayoutPress(l) ==
  /\ l.op = "press"
  /\ l.probe.unhandled = 0
  /\ buttons[l.b].onPress.k = "nav"

----------------------------------------------------------------------------
(* The runs with results that ask for an update. *)

\* { update: true }
UpdateRes == [EmptyRes EXCEPT !.update = TRUE]

UpdateResults ==
  { NoRes, MenuFunctionRes, UpdateRes, [UpdateRes EXCEPT !.value = 1] }

\* a callback_query event, the function of the user returning one of
\* UpdateResults
PressUpdate ==
  \E b \in 1..Len(buttons), res \in UpdateResults : PressOf(b, res, TRUE)

NextUpdate == PressUpdate

SpecUpdate == InitDispatch /\ [][NextUpdate]_vars

\* the step dispatched a press to a button of a menu that a function made,
\* and the function of the button returned res
PressInFunctionMenu(l, res) ==
  /\ l.op = "press"
  /\ l.probe.ran = 1
  /\ l.res = res
  /\ menus[buttons[l.b].parent].dyn.k = "button"

\* C21: when a button of a menu that a function made returns
\* { update: true } and nothing else, the dispatch applies the result, calls
\* the function again and sends the new menu, which takes the place of the
\* old one at the button that attached it
C21_UpdateOnlyRebuilds ==
  PressInFunctionMenu(last, UpdateRes)
  => /\ last.err = "none"
     /\ last.probe.applied
     /\ last.fnCalls = 1
     /\ Len(last.calls) = 1
     /\ buttons[menus[buttons[last.b].parent].dyn.button].dynamicMenu
          # buttons[last.b].parent

----------------------------------------------------------------------------
(* The runs with events of any data, on a handler with any of its hooks
   installed, before and after the tree is shown. *)

\* "/q/x", "/r/zz", "/r/zz/x", "/r/s/x", "/r/s/g", "/r/s/zz/y": no menu, no
\* button, no menu below a root, a button of another menu, no menu below a
\* menu without children; and "/r/x", "/r/s/y"
EventData ==
  { [path |-> <<Str1("q")>>, id |-> Str1("x")],
    [path |-> <<Str1("r")>>, id |-> Str2("z", "z")],
    [path |-> <<Str1("r"), Str2("z", "z")>>, id |-> Str1("x")],
    [path |-> <<Str1("r"), Str1("s")>>, id |-> Str1("x")],
    [path |-> <<Str1("r"), Str1("s")>>, id |-> Str1("g")],
    [path |-> <<Str1("r"), Str1("s"), Str2("z", "z")>>, id |-> Str1("y")],
    [path |-> <<Str1("r")>>, id |-> Str1("x")],
    [path |-> <<Str1("r"), Str1("s")>>, id |-> Str1("y")] }

\* the hooks of setQueryHandler(), setOnUnhandledQueryHandler() and
\* onMethodMissing()
EventHooks == {"query", "unhandled", "missing"}

InitEvent ==
  \E h \in SUBSET EventHooks, shown \in BOOLEAN :
    Holds([(IF shown THEN ShownTree ELSE BuiltTree) EXCEPT !.hooks = h])

\* a callback_query event with one of EventData; the function of a button
\* of the user, if one is called, returns res
PressEvent ==
  \E data \in EventData, res \in {NoRes, [EmptyRes EXCEPT !.value = 1]} :
    Commit(onCallbackQuery([Heap EXCEPT !.oracle = <<DynLayout>>], data, res, TRUE),
           [NoLast EXCEPT !.op = "event", !.res = res,
                          !.arg = <<data.path, data.id>>],
           1)

\* a callback_query event with the data a keyboard carries for button b,
\* the function of the user returning nothing, a menu or { close: true }
PressEventButton ==
  \E b \in 1..Len(buttons), res \in {NoRes, MenuFunctionRes, CloseRes} :
    PressOf(b, res, TRUE)

NextEvent ==
  \/ PressEvent
  \/ PressEventButton

SpecEvent == InitEvent /\ [][NextEvent]_vars

\* the data of the event of the step l
DataOf(l) ==
  IF l.op = "press"
  THEN [path |-> buttons[l.b].builtItem.cbPath, id |-> buttons[l.b].builtItem.cbId]
  ELSE [path |-> l.arg[1], id |-> l.arg[2]]

\* the menus a registered menu reaches
RegisteredTrees ==
  IF menuDict.def THEN UNION {TreeOf(menuDict.d[k]) : k \in DOMAIN menuDict.d}
  ELSE {}

\* data is the path of a menu of a registered tree and the id of one of the
\* buttons of that menu
Matches(data) ==
  \E m \in RegisteredTrees :
    /\ path(Heap, m) = data.path
    /\ ButtonOf(Heap, menus[m].buttons, data.id) # 0

\* the step was an event
IsEvent(l) == l.op \in {"press", "event"}

\* C23: an event whose data names no button of a menu of a registered tree
\* ends without an error, runs no function and no handler of a missing
\* method, calls the transport not once, leaves the menus, the buttons, the
\* registries, the value stacks, the registered menus and the active menu as
\* they were, and calls the hook for unhandled queries once if it is
\* installed; every event calls the hook for queries once if it is installed
C23_UnmatchedEventIgnored ==
  [][/\ (IsEvent(last') /\ ~Matches(DataOf(last')))
        => (/\ last'.err = "none"
            /\ last'.calls = <<>>
            /\ last'.probe.ran = 0
            /\ last'.probe.missing = 0
            /\ ~last'.probe.applied
            /\ UNCHANGED <<menus, buttons, bdicts, regs, stacks, menuDict,
                           kActive, aMenu>>
            /\ last'.probe.unhandled = IF "unhandled" \in hooks THEN 1 ELSE 0)
     /\ (IsEvent(last')
         => last'.probe.queries = IF "query" \in hooks THEN 1 ELSE 0)]_vars

\* the event of a keyboard sent before, whose menu is of no registered tree
\* any more, went to the hook for unhandled queries
C23_Witness ==
  /\ last.op = "press"
  /\ ~Matches(DataOf(last))
  /\ last.probe.unhandled = 1
  /\ last.probe.queries = 1
  /\ last.calls = <<>>

----------------------------------------------------------------------------
(* The runs with buttons that have a URL. *)

\* { text: "W", url: "https://...", onPress: f } under the key id when
\* withPress, { text: "W", url: "https://..." } otherwise
UrlEntry(id, withPress) ==
  [id |-> id, text |-> Str1("W"), kind |-> "button", full |-> Const(FALSE),
   hide |-> Const(FALSE), url |-> TRUE, onPress |-> withPress]

\* BuiltTree with the button "w", which has a URL and a function, and the
\* button "v", which has a URL only, on the root
UrlTree ==
  fromObjectButton(fromObjectButton(BuiltTree, 1, UrlEntry(Str1("w"), TRUE)),
                   1, UrlEntry(Str1("v"), FALSE))

InitUrl == Holds([showMenu(UrlTree, 1) EXCEPT !.calls = <<>>, !.probe = NoProbe])

\* "/r/w", "/r/v", "/r/x", "/r/u", "/r/s/y"
UrlData ==
  { [path |-> <<Str1("r")>>, id |-> Str1("w")],
    [path |-> <<Str1("r")>>, id |-> Str1("v")],
    [path |-> <<Str1("r")>>, id |-> Str1("x")],
    [path |-> <<Str1("r")>>, id |-> Str1("u")],
    [path |-> <<Str1("r"), Str1("s")>>, id |-> Str1("y")] }

\* a callback_query event with one of UrlData; the function of a button of
\* the user, if one is called, returns res
PressUrl ==
  \E data \in UrlData,
     res \in {NoRes, [EmptyRes EXCEPT !.value = 1],
              [EmptyRes EXCEPT !.text = [has |-> TRUE, s |-> Str1("X")]]} :
    Commit(onCallbackQuery(Heap, data, res, TRUE),
           [NoLast EXCEPT !.op = "event", !.res = res,
                          !.arg = <<data.path, data.id>>],
           1)

NextUrl == PressUrl

SpecUrl == InitUrl /\ [][NextUrl]_vars

\* the items of the keyboards that the calls cs sent
ItemsSent(cs) == UNION {{Flatten(cs[i].kb)[j] : j \in 1..Len(Flatten(cs[i].kb))} :
                        i \in 1..Len(cs)}

\* the step was an event whose data names button b of the root
EventFor(l, id) == l.op = "event" /\ l.arg = <<<<Str1("r")>>, id>>

\* C24: a button with a URL is built and sent with its url and without
\* callback data, also when it has a function; an event whose data names a
\* button with a URL runs neither a function of the user nor the handler of
\* a missing method
C24_UrlButtonNeverDispatches ==
  /\ \A b \in 1..Len(buttons) :
       (buttons[b].url /\ buttons[b].builtItem.set)
       => /\ buttons[b].builtItem.url
          /\ buttons[b].builtItem.cbPath = <<>>
          /\ buttons[b].builtItem.cbId = <<>>
  /\ \A item \in ItemsSent(last.calls) :
       item.text = Str1("W") => item.url /\ item.cbId = <<>>
  /\ \A b \in 1..Len(buttons) :
       (buttons[b].url /\ EventFor(last, buttons[b].id))
       => /\ last.probe.ran = 0
          /\ last.probe.missing = 0

----------------------------------------------------------------------------
(* The runs with buttons that have no function. *)

\* "L" under the key id: a button with a text only
LabelEntry(id) == [id |-> id, text |-> Str1("L"), kind |-> "label"]

\* new MenuBuilder("Hi", "r")
\*   .button("A", "x").setOnPress(f).end()
\*   .button("L", "l").end()
LabelTree ==
  fromObjectButton(UserButton(new_MenuBuilder(EmptyHeap, Str2("H", "i"), Str1("r"), 0).st,
                              1, Str1("A"), Str1("x")),
                   1, LabelEntry(Str1("l")))

\* the layout of the dynamic menus of these runs: the button of DynLayout
\* and a button with a text only
LabelLayout == [DynLayout EXCEPT !.buttons = @ \o <<LabelEntry(Str1("e"))>>]

\* the handler with and without a handler of onMethodMissing()
InitLabel ==
  \E h \in {EventHooks, EventHooks \ {"missing"}} :
    Holds([showMenu(LabelTree, 1) EXCEPT !.calls = <<>>, !.probe = NoProbe,
                                         !.hooks = h])

LabelResults ==
  { NoRes,
    [EmptyRes EXCEPT !.value = 1],
    [EmptyRes EXCEPT !.text = [has |-> TRUE, s |-> Str1("X")]],
    [EmptyRes EXCEPT !.message = [has |-> TRUE, s |-> Str1("M")]],
    MenuFunctionRes,
    [EmptyRes EXCEPT !.update = TRUE, !.value = 1] }

\* the dispatch of the event of button b when the function of the user, or
\* the handler of a missing method, returns res, from the heap S
DispatchOf(S, b, res) ==
  onCallbackQuery([S EXCEPT !.oracle = <<LabelLayout>>],
                  [path |-> S.buttons[b].builtItem.cbPath,
                   id |-> S.buttons[b].builtItem.cbId],
                  res, TRUE)

\* a callback_query event for a button b that a keyboard sent before shows
PressLabel ==
  \E b \in 1..Len(buttons), res \in LabelResults :
    /\ buttons[b].builtItem.set
    /\ Commit(DispatchOf(Heap, b, res),
              [NoLast EXCEPT !.op = "press", !.b = b, !.res = res], 1)

NextLabel == PressLabel

SpecLabel == InitLabel /\ [][NextLabel]_vars

\* the button that the data of the event of step l names in this state: 0
\* when there is none
Acting(l) ==
  IF ~menuDict.def \/ DictGet(menuDict.d, Head(DataOf(l).path)) = 0 THEN 0
  ELSE getMenuItemByPath(Heap, DictGet(menuDict.d, Head(DataOf(l).path)),
                         DataOf(l).path, DataOf(l).id)

\* the step dispatched an event to a button that has no function
LabelPress(l) ==
  /\ l.op = "press"
  /\ Acting(l) > 0
  /\ buttons[Acting(l)].onPress.k = "none"

\* the entries of the value stack of menu m in the menus ms and stacks ss
ValuesOf(ms, ss, m) == IF ms[m].vstack = 0 THEN <<>> ELSE ss[ms[m].vstack].items

\* the step from this state to the next applied the value res to button b
\* of menu m: the value is at the end of the value stack of m, which the
\* dispatch returns, the branches of menu and update were entered, and, when
\* m is not made by a function, the text and the message are set and a new
\* text or message was sent
AppliedTo(l, res, b, m) ==
  /\ l.probe.applied = isButtonActionResultLike(res)
  /\ menus[m].dyn.k = "none"
     => /\ res.text.has => buttons'[b].text = res.text.s
        /\ res.message.has => menus'[m].text = res.message.s
        /\ (\/ res.text.has /\ res.text.s # buttons[b].text
            \/ res.message.has /\ res.message.s # menus[m].text)
           => Len(l.calls) = 1
  /\ (res.value # 0 /\ res.menu.k = "none" /\ l.err = "none")
     => /\ ValuesOf(menus', stacks', m) = Append(ValuesOf(menus, stacks, m), res.value)
        /\ l.probe.ret = "stack"
  /\ res.menu.k = "function" => "menu" \in l.probe.effects
  /\ res.update => "update" \in l.probe.effects
  /\ res = NoRes => l.calls = <<>> /\ l.err = "none"

\* the step dispatched an event to a button with a function of the user
UserPress(l) ==
  /\ l.op = "press"
  /\ Acting(l) > 0
  /\ buttons[Acting(l)].onPress.k = "user"

\* C25: a press of a button without a function calls the handler of
\* onMethodMissing() once with the text and the path of the button, runs no
\* function of the user, and applies the value the handler returns as the
\* press of a button with a function applies the value the function
\* returns; when no handler is installed the press calls nothing and
\* leaves the buttons, the registries, the registered menus, the active
\* menu, the menus and the entries of their value stacks as they were
C25_MissingMethodForwarded ==
  [][/\ LabelPress(last')
        => IF "missing" \in hooks
           THEN /\ last'.probe.missing = 1
                /\ last'.probe.ran = 0
                /\ last'.probe.missingArgs
                     = <<buttons[Acting(last')].text,
                         path(Heap, buttons[Acting(last')].parent)
                           \o <<buttons[Acting(last')].id>>>>
                /\ AppliedTo(last', last'.res, Acting(last'),
                             buttons[Acting(last')].parent)
           ELSE /\ last'.probe.missing = 0
                /\ last'.probe.ran = 0
                /\ last'.calls = <<>>
                /\ last'.err = "none"
                /\ UNCHANGED <<buttons, bdicts, regs, menuDict, kActive, aMenu>>
                /\ \A m \in 1..Len(menus) :
                     /\ [menus'[m] EXCEPT !.vstack = 0] = [menus[m] EXCEPT !.vstack = 0]
                     /\ ValuesOf(menus', stacks', m) = ValuesOf(menus, stacks, m)
     /\ UserPress(last')
        => /\ last'.probe.missing = 0
           /\ last'.probe.ran = 1
           /\ AppliedTo(last', last'.res, Acting(last'),
                        buttons[Acting(last')].parent)]_vars

\* the handler of onMethodMissing() returned { value: 1 } for the button "l"
\* of the root, and the value is on the value stack of the root
C25_Witness ==
  /\ last.op = "press"
  /\ last.b = 2
  /\ last.probe.missing = 1
  /\ last.probe.missingArgs = <<Str1("L"), <<Str1("r"), Str1("l")>>>>
  /\ last.res = [EmptyRes EXCEPT !.value = 1]
  /\ last.probe.ret = "stack"
  /\ ValuesOf(menus, stacks, 1) # <<>>

----------------------------------------------------------------------------
(* The runs with events that arrive while a dispatch is suspended.  The
   handler is an async function: it runs until its first await, at
   callback-handler.ts:152 or 155, and the rest runs when it is resumed;
   `pending' holds what the suspended dispatches captured.  The dispatch is
   cut at this await only, and only when toMenu(true) at line 155 returns
   the cached Menu. *)

\* callback-handler.ts:119-155 for the button b that the data names, up to
\* the first await
onCallbackQueryBegin(S, b) ==
  IF S.buttons[b].onPress.k = "none"
  THEN onMethodMissing(_getValueStack([S EXCEPT !.aMenu = S.buttons[b].parent],
                                      S.buttons[b].parent, 0).st,
                       b)
  ELSE _getValueStack([S EXCEPT !.aMenu = S.buttons[b].parent],
                      S.buttons[b].parent, 0).st

\* callback-handler.ts:157-195 after the await: d is what the dispatch
\* captured, the button, menuId, previousMenu and the value that its
\* function or the handler of a missing method returns
onCallbackQueryResume(S, d) ==
  onCallbackQueryCatch(
    onCallbackQueryDone(
      execButtonAction(IF S.buttons[d.b].onPress.k = "none" THEN S
                       ELSE onPress(S, d.b, S.buttons[d.b].onPress),
                       valueOf(S, d.b, d.res), d.b, S.buttons[d.b].parent, TRUE),
      d.mId, d.previousMenu, S.buttons[d.b].parent))

\* the button that the data of the keyboard of button b names, 0 when
\* there is none
Named(b) ==
  IF ~menuDict.def \/ DictGet(menuDict.d, Head(buttons[b].builtItem.cbPath)) = 0
  THEN 0
  ELSE getMenuItemByPath(Heap, DictGet(menuDict.d, Head(buttons[b].builtItem.cbPath)),
                         buttons[b].builtItem.cbPath, buttons[b].builtItem.cbId)

ConcurrentResults ==
  { NoRes,
    [EmptyRes EXCEPT !.text = [has |-> TRUE, s |-> Str1("X")]],
    [EmptyRes EXCEPT !.update = TRUE, !.value = 1],
    MenuFunctionRes }

\* a callback_query event arrives and its dispatch runs to its first await
Arrive ==
  \E b \in 1..Len(buttons), res \in ConcurrentResults :
    /\ buttons[b].builtItem.set
    /\ Len(pending) < MaxPending
    /\ Named(b) > 0
    /\ buttons[Named(b)].onPress.k = "user" \/ res = NoRes
    /\ menus[buttons[Named(b)].parent].changeFlags = ChangeNone
    /\ menus[buttons[Named(b)].parent].cache.set
    /\ Commit([onCallbackQueryBegin([Heap EXCEPT !.probe.queries = 1], Named(b))
                 EXCEPT !.pending =
                   Append(@, [b |-> Named(b),
                              mId |-> Head(buttons[b].builtItem.cbPath),
                              previousMenu |->
                                DictGet(menuDict.d, Head(buttons[b].builtItem.cbPath)),
                              res |-> res])],
              [NoLast EXCEPT !.op = "arrive", !.b = Named(b), !.res = res], 1)

\* a suspended dispatch is resumed and runs to its end
Resume ==
  \E i \in 1..Len(pending) :
    Commit([onCallbackQueryResume([Heap EXCEPT !.oracle = <<DynLayout>>], pending[i])
              EXCEPT !.pending = SubSeq(pending, 1, i - 1)
                                   \o SubSeq(pending, i + 1, Len(pending))],
           [NoLast EXCEPT !.op = "resume", !.b = pending[i].b, !.res = pending[i].res],
           0)

NextConcurrent ==
  \/ Arrive
  \/ Resume

SpecConcurrent == InitDispatch /\ [][NextConcurrent]_vars

\* C26: at most one dispatch of the tree is between its start and its end,
\* and while it is, _activeMenu is the menu of its button
C26_DispatchesSerialized ==
  /\ Len(pending) <= 1
  /\ \A i \in 1..Len(pending) : aMenu = buttons[pending[i].b].parent

----------------------------------------------------------------------------
(* The runs with results that carry a value, and results of every branch
   that carry none. *)

ValueResults ==
  { NoRes,
    [EmptyRes EXCEPT !.value = 1],
    [EmptyRes EXCEPT !.value = 1, !.keepPreviousValue = FALSE],
    [EmptyRes EXCEPT !.text = [has |-> TRUE, s |-> Str1("X")]],
    [EmptyRes EXCEPT !.text = [has |-> TRUE, s |-> Str1("X")], !.value = 1],
    [EmptyRes EXCEPT !.navigate = NavNum(1), !.value = 1],
    [CloseRes EXCEPT !.value = 1],
    [MenuObjectRes EXCEPT !.value = 1],
    [MenuObjectRes EXCEPT !.text = [has |-> TRUE, s |-> Str1("X")]],
    MenuFunctionRes,
    [EmptyRes EXCEPT !.update = TRUE, !.value = 1] }

\* a callback_query event, the function of the user returning one of
\* ValueResults
PressValue ==
  \E b \in 1..Len(buttons), res \in ValueResults : PressOf(b, res, TRUE)

NextValue == PressValue

SpecValue == InitDispatch /\ [][NextValue]_vars

\* the value recorded under the name id in the value stack of menu m in the
\* menus ms and stacks ss; 0 when there is none
NamedValueOf(ms, ss, m, id) ==
  IF ms[m].vstack = 0 THEN 0 ELSE DictGet(ss[ms[m].vstack].named, id)

\* C27: a dispatch that applied a result and ended without an error
\* appended the value of the result, and nothing else, to the value stack
\* of the menu of the button, recorded it under the id of the button and
\* returned the stack, when the result has a value and keepPreviousValue is
\* not false; it left the entries of the stack as they were when the
\* result has no value
C27_ValuePushedOnce ==
  [][(UserPress(last') /\ last'.probe.applied /\ last'.err = "none")
     => LET b == Acting(last')
            m == buttons[Acting(last')].parent
            res == last'.res
        IN IF res.value # 0 /\ res.keepPreviousValue
           THEN /\ ValuesOf(menus', stacks', m) = Append(ValuesOf(menus, stacks, m), res.value)
                /\ NamedValueOf(menus', stacks', m, buttons[b].id) = res.value
                /\ last'.probe.ret = "stack"
           ELSE res.value = 0
                => ValuesOf(menus', stacks', m) = ValuesOf(menus, stacks, m)]_vars

\* the menus of the tree of root in the menus ms
RECURSIVE BelowIn(_, _, _)
BelowIn(ms, set, n) ==
  IF n = 0 THEN set
  ELSE BelowIn(ms,
               set \cup UNION {{ms[m].children[i] : i \in 1..Len(ms[m].children)} :
                               m \in set},
               n - 1)

\* C28: over a step that leaves the root attached, every menu that is of
\* the tree of the root before and after the step keeps its value stack, and
\* the entries the stack held are still its first entries, in their order
C28_ValueStackAppendOnly ==
  [][(menus[1].reg # 0 /\ menus'[1].reg # 0)
     => \A m \in TreeOf(1) \cap BelowIn(menus', {1}, Len(menus')) :
          menus[m].vstack # 0
          => /\ menus'[m].vstack = menus[m].vstack
             /\ IsPrefix(stacks[menus[m].vstack].items,
                         stacks'[menus[m].vstack].items)]_vars

----------------------------------------------------------------------------
(* Trees whose buttons are given constants and functions by setHide and
   setFull. *)

\* the values and the function of the user that setHide and setFull are given
Whens == {Const(TRUE), Const(FALSE), Fn(1)}

\* button.setHide(toOrWhen) on a button of the tree
SetHide ==
  \E b \in 1..Len(buttons) : \E toOrWhen \in Whens :
    Commit(setHide(Heap, b, toOrWhen),
           [NoLast EXCEPT !.op = "setHide", !.b = b], 1)

\* button.setFull(toOrWhen) on a button of the tree
SetFull ==
  \E b \in 1..Len(buttons) : \E toOrWhen \in Whens :
    Commit(setFull(Heap, b, toOrWhen),
           [NoLast EXCEPT !.op = "setFull", !.b = b], 1)

NextPure ==
  \/ AddMenu
  \/ SetHide
  \/ SetFull

SpecPure == InitTree /\ [][NextPure]_vars

\* menu m and the menus above it, n bounding the walk
RECURSIVE UpFrom(_, _)
UpFrom(m, n) ==
  IF m = 0 \/ n = 0 THEN {} ELSE {m} \cup UpFrom(menus[m].parent, n - 1)

\* C29: a button that was given a function by setHide or setFull is not
\* pure, and neither is the menu that holds it nor any menu above that menu
C29_ImpureUpToRoot ==
  \A b \in 1..Len(buttons) :
    (buttons[b].hideFunction # 0 \/ buttons[b].fullFunction # 0)
    => /\ ~buttons[b].isPure
       /\ \A m \in UpFrom(buttons[b].parent, Len(menus)) : ~menus[m].isPure

----------------------------------------------------------------------------
(* A menu given buttons one at a time, and rendered. *)

MaxRow == 3

\* the ids the buttons are given
RowIds == {Str1("a"), Str1("b"), Str1("1"), Str1("2")}

\* this.button("B", id).setFull(toOrWhen).end() on the root, id being new
AddButton ==
  \E id \in RowIds : \E toOrWhen \in Whens :
    /\ Len(buttons) < MaxRow
    /\ \A b \in 1..Len(buttons) : buttons[b].id # id
    /\ LET nb == button(Heap, 1, Str1("B"), id)
       IN Commit(item_end(setFull(nb.st, nb.val, toOrWhen), nb.val),
                 [NoLast EXCEPT !.op = "button", !.m = 1, !.arg = id], 0)

NextRows ==
  \/ AddButton
  \/ Render
  \/ EnvFlip

SpecRows == InitTree /\ [][NextRows]_vars

\* the rows one after the other
RECURSIVE Flat(_)
Flat(rows) == IF rows = <<>> THEN <<>> ELSE Head(rows) \o Flat(Tail(rows))

\* C30: the rows of a rendered menu, one after the other, are the buttons
\* of the menu in the order they were added, each once; no row is empty, a
\* full-width button is alone in its row, and no row of buttons that are not
\* full-width is followed by another such row
C30_RowsFollowInsertion ==
  (last.op = "render" /\ last.ret.set)
  => LET rows == last.ret.rows IN
     /\ Len(Flat(rows)) = Len(buttons)
     /\ \A b \in 1..Len(buttons) : Flat(rows)[b].cbId = buttons[b].id
     /\ \A i \in 1..Len(rows) :
          /\ rows[i] # <<>>
          /\ (\E j \in 1..Len(rows[i]) : rows[i][j].full) => Len(rows[i]) = 1
     /\ \A i \in 1..(Len(rows) - 1) : rows[i][1].full \/ rows[i + 1][1].full

----------------------------------------------------------------------------
(* The calls of the function that produces a menu. *)

----------------------------------------------------------------------------
(* The runs with results that close the menu. *)

\* { closeWith: s }
CloseWithRes(s) == [EmptyRes EXCEPT !.closeWith = [has |-> TRUE, s |-> s]]

\* close: true, and closeWith with the text of the root, with the text of
\* the submenu, with another text and with a blank one
CloseResults ==
  { NoRes, CloseRes,
    CloseWithRes(Str2("H", "i")),
    CloseWithRes(Str3("S", "u", "b")),
    CloseWithRes(Str3("B", "y", "e")),
    CloseWithRes(Str1(" ")) }

\* a callback_query event, with or without the id of its message, the
\* function of the user returning one of CloseResults
PressClose ==
  \E b \in 1..Len(buttons), res \in CloseResults, hasMsg \in BOOLEAN :
    PressOf(b, res, hasMsg)

NextClose == PressClose

SpecClose == InitDispatch /\ [][NextClose]_vars

\* the replacement text a result closes with: none for close: true
CloseText(res) == IF res.closeWith.has THEN Trim(res.closeWith.s) ELSE <<>>

\* the texts the message may show when button b is pressed: the text of the
\* menu of the button and the text of the menu the keeper has as active
CurrentTexts(b) ==
  {menus[buttons[b].parent].text}
    \cup (IF kActive # 0 THEN {menus[kActive].text} ELSE {})

\* the call of the transport that closing a menu whose text is one of curs
\* with the replacement text t is to make
CloseCall(t, curs) ==
  IF t = <<>> THEN "deleteMessage"
  ELSE IF t \in curs THEN "editMessageReplyMarkup"
  ELSE "editMessageText"

\* C32: a dispatch whose result closes the menu makes one call of the
\* transport: deleteMessage with no replacement text, editMessageReplyMarkup
\* with the text of the menu, editMessageText with another text, which it
\* carries; and the active menu of the keeper is undefined after it
C32_CloseIsOneCall ==
  [][(Applied(last') /\ execCloses(last'.res) /\ last'.err = "none")
     => LET t == CloseText(last'.res)
            curs == CurrentTexts(last'.b)
        IN /\ Len(last'.calls) = 1
           /\ last'.calls[1].op = CloseCall(t, curs)
           /\ t # <<>> /\ t \notin curs => last'.calls[1].text = t
           /\ last'.calls[1].kb = <<>>
           /\ kActive' = 0]_vars

----------------------------------------------------------------------------
(* The indices of the menus of a tree. *)

\* the highest index a menu of the tree of the root has
HighestIndex ==
  CHOOSE i \in {menus[m].index : m \in TreeOf(1)} :
    \A m \in TreeOf(1) : menus[m].index <= i

\* C33: every menu of the tree has the highest index of the tree as its
\* lastMenuIndex
C33_LastMenuIndexIsHighest ==
  \A m \in TreeOf(1) : menus[m].lastMenuIndex = HighestIndex

MaxIndexTree == 6

\* this.menu("Sub", "Go", id, "g" + id) on any menu of a tree that grows to
\* MaxIndexTree menus
AddSubmenu ==
  \E this \in 1..Len(menus) :
    /\ Len(menus) < MaxIndexTree
    /\ Commit(menu(Heap, this, Str3("S", "u", "b"), Str2("G", "o"),
                   Given(TreeIds[Len(menus) + 1]),
                   Given(<<"g">> \o TreeIds[Len(menus) + 1]),
                   Const(FALSE), Const(FALSE)).st,
              [NoLast EXCEPT !.op = "menu", !.m = this], 0)

NextIndex == AddSubmenu

SpecIndex == InitTree /\ [][NextIndex]_vars

\* C34: the menus of the tree have pairwise distinct indices, which are the
\* numbers from 0 to one less than the number of menus, and the list of the
\* menus in the order they were made holds each menu at its index
C34_IndicesFollowCreation ==
  /\ \A m, n \in TreeOf(1) : m # n => menus[m].index # menus[n].index
  /\ {menus[m].index : m \in TreeOf(1)} = 0..(Cardinality(TreeOf(1)) - 1)
  /\ \A m \in TreeOf(1) :
       /\ menus[m].index < Len(ByIndex(1))
       /\ ByIndex(1)[menus[m].index + 1] = m

----------------------------------------------------------------------------
(* The runs with generators that yield results and values of other kinds,
   on a handler that has or has not a handler of onGeneratorValue(). *)

\* values yielded by one generator of these runs
MaxSequence == 2

\* { text: s }
TextRes(s) == [EmptyRes EXCEPT !.text = [has |-> TRUE, s |-> s]]

\* a primitive, an object that is no result, and two results
SequenceYields ==
  { YieldPrimitive, YieldObject(EmptyRes),
    YieldObject(TextRes(Str1("X"))), YieldObject(TextRes(Str1("Y"))) }

\* the sequences of at most n of these values
RECURSIVE SequencesOf(_)
SequencesOf(n) ==
  IF n = 0 THEN {<<>>}
  ELSE SequencesOf(n - 1)
       \cup {Append(g, y) : g \in {h \in SequencesOf(n - 1) : Len(h) = n - 1},
                            y \in SequenceYields}

InitSequence ==
  \E strict \in BOOLEAN : \E h \in {{}, {"generatorValue"}} :
    Holds([ShownTree EXCEPT !.isStrict = strict, !.hooks = @ \cup h])

\* a callback_query event for button x, whose function is a generator
\* function that yields at most MaxSequence of SequenceYields
PressSequence ==
  \E b \in 1..Len(buttons), generator \in SequencesOf(MaxSequence) :
    /\ buttons[b].id = Str1("x")
    /\ PressGeneratorOf(b, generator)

NextSequence == PressSequence

SpecSequence == InitSequence /\ [][NextSequence]_vars

\* the yielded value goes to the handler of onGeneratorValue()
Opaque(y) == y.k = "primitive" \/ (y.k = "object" /\ ~isButtonActionResultLike(y.res))

\* the text of the last result of g that carries one, or none
RECURSIVE LastText(_)
LastText(g) ==
  IF g = <<>> THEN <<>>
  ELSE IF g[Len(g)].k = "object" /\ g[Len(g)].res.text.has
  THEN g[Len(g)].res.text.s
  ELSE LastText(SubSeq(g, 1, Len(g) - 1))

\* the step drove a generator to its end
SequenceDone(l) ==
  l.op = "generator" /\ l.probe.ran > 0 /\ ErrorOf(l) = "none"

----------------------------------------------------------------------------
(* What a detach changes. *)

\* the menus the step detaches: they had a parent and have none after it
Detached == {m \in 1..Len(menus) : menus[m].parent # 0 /\ menus'[m].parent = 0}

\* the position of menu m in the sequence ch
PlaceIn(ch, m) == CHOOSE i \in 1..Len(ch) : ch[i] = m

\* the children of p that come after d
LaterSiblings(p, d) ==
  {menus[p].children[i] :
     i \in (PlaceIn(menus[p].children, d) + 1)..Len(menus[p].children)}

\* the sequence ch without m
Without(ch, m) == SelectSeq(ch, LAMBDA c : c # m)

\* menus and buttons of the runs that replace dynamic menus again and again
MaxDetachMenus == 8
MaxDetachButtons == 11

\* { menu: <a layout>, value: 1 }, the layout carrying an id made of the id
\* of the menu of button b and the id of b
MenuOf(S, b) ==
  [EmptyRes EXCEPT !.value = 1,
                   !.menu = [k |-> "object",
                             layout |-> [DynLayout EXCEPT
                                           !.hasId = TRUE,
                                           !.id = S.menus[S.buttons[b].parent].id
                                                    \o S.buttons[b].id]]]

InitDetach == Holds(ShownTree)

\* a callback_query event for the button x, u or g of the root or y of the
\* submenu, whose function returns nothing or a layout; the runs end when
\* the heap holds MaxDetachMenus menus
PressDetach ==
  \E b \in 1..Len(buttons) : \E res \in {NoRes, MenuOf(Heap, b)} :
    /\ buttons[b].builtItem.set
    /\ buttons[b].id \in {Str1("x"), Str1("u"), Str1("g"), Str1("y")}
    /\ buttons[b].onPress.k = "user" \/ res = NoRes
    /\ CommitIn(onCallbackQuery(Heap, [path |-> buttons[b].builtItem.cbPath,
                                       id |-> buttons[b].builtItem.cbId],
                                res, TRUE),
                [NoLast EXCEPT !.op = "press", !.b = b, !.res = res,
                               !.arg = <<"msg">>],
                0, MaxDetachMenus, MaxDetachButtons)

NextDetach == PressDetach

SpecDetach == InitDetach /\ [][NextDetach]_vars

\* C36: a step that detaches one menu takes it out of the children of its
\* parent, which keep their order, and out of the registries, which keep the
\* other menus; the index of every child of the parent that came after it is
\* one less, and the index of every other menu is what it was
C36_DetachFrame ==
  [][\A d \in Detached :
       Detached = {d}
       => LET p == menus[d].parent
              r == menus[d].reg
          IN /\ IsPrefix(Without(menus[p].children, d), menus'[p].children)
             /\ \A i \in 1..Len(menus'[p].children) : menus'[p].children[i] # d
             /\ d \notin Registered(regs'[r])
             /\ Registered(regs[r]) \ {d} \subseteq Registered(regs'[r])
             /\ \A c \in LaterSiblings(p, d) : menus'[c].index = menus[c].index - 1
             /\ \A m \in (1..Len(menus)) \ (LaterSiblings(p, d) \cup {d}) :
                  menus'[m].index = menus[m].index]_vars

----------------------------------------------------------------------------
(* menu() called with texts and ids that are blank. *)

\* the texts menu() is given: a text, and two that are empty once trimmed
ArgTexts(t) == {t, Str1(" "), <<>>}

\* this.menu(menuText, buttonText, menuId, buttonId) on a menu of the tree,
\* each argument a string that may be blank
MenuArgs ==
  \E this \in 1..Len(menus) :
    \E menuText \in ArgTexts(Str3("S", "u", "b")), buttonText \in ArgTexts(Str2("G", "o")),
       mId \in ArgTexts(TreeIds[Len(menus) + 1]),
       buttonId \in ArgTexts(<<"g">> \o TreeIds[Len(menus) + 1]) :
      /\ Len(menus) < MaxTree
      /\ Commit(menu(Heap, this, menuText, buttonText, Given(mId), Given(buttonId),
                     Const(FALSE), Const(FALSE)).st,
                [NoLast EXCEPT !.op = "menu", !.m = this,
                               !.arg = <<menuText, buttonText, mId, buttonId>>], 0)

NextArgs == MenuArgs

SpecArgs == InitTree /\ [][NextArgs]_vars

\* C37: menu() called with a menu text, a button text, a menu id or a button
\* id that is empty once trimmed ends with an error and leaves the menus and
\* the buttons as they were
C37_BlankArgumentRejected ==
  [][(last'.op = "menu" /\ \E i \in 1..4 : Trim(last'.arg[i]) = <<>>)
     => /\ last'.err # "none"
        /\ menus' = menus
        /\ buttons' = buttons]_vars

----------------------------------------------------------------------------
(* The paths that are the path of no menu. *)

\* the segments a path is extended by: the ids of the menus and an id that
\* no menu has
MoreSegments == {TreeIds[i] : i \in 1..Len(TreeIds)} \cup {Str2("z", "z")}

\* the paths of the menus of the tree
MenuPaths == {path(Heap, n) : n \in 1..Len(menus)}

\* the path of a menu followed by one more segment, where no menu has that path
NonPaths ==
  {path(Heap, n) \o <<s>> : n \in 1..Len(menus), s \in MoreSegments} \ MenuPaths

\* C38: for every path that is the path of no menu of the tree,
\* getChildByPath called on any menu returns no menu and getMenuItemByPath
\* returns no button, whatever the id of the button
C38_NonPathResolvesNothing ==
  \A p \in NonPaths, m \in 1..Len(menus) :
    /\ getChildByPath(Heap, m, p) \notin 1..Len(menus)
    /\ \A b \in 1..Len(buttons) :
         getMenuItemByPath(Heap, m, p, buttons[b].id) \notin 1..Len(buttons)

----------------------------------------------------------------------------
(* Navigation to a menu in any state of its change flags. *)

\* the menu that the press of button b of the step l navigated to: the
\* submenu of a button of menu(), the menu a button of navigation() resolved
NavigatedTo(l, b) ==
  IF buttons[b].onPress.k = "inner" THEN buttons[b].onPress.target
  ELSE l.probe.navTarget

\* the step l was a press of the button b of menu() or navigation() that
\* ended without an error and navigated to a menu that is not the menu of b
\* and not the active one
Navigated(l, b) ==
  /\ l.op = "press" /\ l.b = b
  /\ l.probe.unhandled = 0
  /\ buttons[b].onPress.k \in {"inner", "nav"}
  /\ l.err = "none" /\ l.probe.errors = 0
  /\ NavigatedTo(l, b) # 0
  /\ NavigatedTo(l, b) # buttons[b].parent
  /\ NavigatedTo(l, b) # kActive

\* a callback_query event for a button of a keyboard sent before, the
\* function of a button of the user returning nothing
PressVisit ==
  \E b \in 1..Len(buttons) : PressOf(b, NoRes, TRUE)

\* the tree of InitDispatch, its buttons pressed, hidden, shown, widened and
\* narrowed between the events
NextVisit ==
  \/ PressVisit
  \/ SetButtonHide
  \/ SetButtonFull

SpecVisit == InitDispatch /\ [][NextVisit]_vars

\* C39: a press that navigates to another menu B ends with exactly one call
\* of the transport, an editMessageText with the text and the keyboard of B,
\* and with B as the active menu, whatever the change flags of B were
C39_NavigationIsFullReplace ==
  [][\A b \in 1..Len(buttons) :
       Navigated(last', b)
       => /\ Len(last'.calls) = 1
          /\ last'.calls[1].op = "editMessageText"
          /\ last'.calls[1].text = menus'[NavigatedTo(last', b)].text
          /\ last'.calls[1].kb = menus'[NavigatedTo(last', b)].cache.rows
          /\ kActive' = NavigatedTo(last', b)]_vars

----------------------------------------------------------------------------
(* The end of a dispatch: events whose dispatch is suspended at its first
   await and resumed later, along with events whose function throws, whose
   transport rejects a call, whose function is a generator, and events that
   name no button.  A suspended dispatch is resumed at some time: the
   function of the user and the transport are taken to answer. *)

\* what happens in a dispatch after its first await: the function of the
\* user returns res or throws, and the call failAt of the transport, if any,
\* is rejected
Ends ==
  { [res |-> NoRes, failAt |-> 0, throws |-> FALSE],
    [res |-> NoRes, failAt |-> 0, throws |-> TRUE],
    [res |-> [EmptyRes EXCEPT !.text = [has |-> TRUE, s |-> Str1("X")]],
     failAt |-> 0, throws |-> FALSE],
    [res |-> [EmptyRes EXCEPT !.text = [has |-> TRUE, s |-> Str1("X")]],
     failAt |-> 1, throws |-> FALSE],
    [res |-> CloseRes, failAt |-> 0, throws |-> FALSE] }

\* a callback_query event for a button with a function of the user, or with
\* none, arrives and its dispatch runs to its first await
ArriveEnd ==
  \E b \in 1..Len(buttons), e \in Ends :
   LET res == e.res
       failAt == e.failAt
       throws == e.throws
   IN
    /\ buttons[b].builtItem.set
    /\ Len(pending) < MaxPending
    /\ Named(b) > 0
    /\ \/ buttons[Named(b)].onPress.k = "user"
       \/ buttons[Named(b)].onPress.k = "none" /\ ~throws
    /\ menus[buttons[Named(b)].parent].changeFlags = ChangeNone
    /\ menus[buttons[Named(b)].parent].cache.set
    /\ Commit([onCallbackQueryBegin([Heap EXCEPT !.probe.queries = 1], Named(b))
                 EXCEPT !.pending =
                   Append(@, [b |-> Named(b),
                              mId |-> Head(buttons[b].builtItem.cbPath),
                              previousMenu |->
                                DictGet(menuDict.d, Head(buttons[b].builtItem.cbPath)),
                              res |-> res, failAt |-> failAt, throws |-> throws])],
              [NoLast EXCEPT !.op = "arrive", !.b = Named(b), !.res = res,
                             !.failAt = failAt, !.throws = throws], 1)

\* a suspended dispatch is resumed and runs to its end
ResumeEnd ==
  \E i \in 1..Len(pending) :
    Commit([onCallbackQueryResume([Heap EXCEPT !.failAt = pending[i].failAt,
                                               !.throws = pending[i].throws],
                                  pending[i])
              EXCEPT !.pending = SubSeq(pending, 1, i - 1)
                                   \o SubSeq(pending, i + 1, Len(pending))],
           [NoLast EXCEPT !.op = "resume", !.b = pending[i].b, !.res = pending[i].res,
                          !.failAt = pending[i].failAt, !.throws = pending[i].throws],
           0)

\* a callback_query event arrives whose data names no button any more: its
\* dispatch ends before its first await, callback-handler.ts:120-141
Unmatched ==
  \E b \in 1..Len(buttons) :
    /\ buttons[b].builtItem.set
    /\ Named(b) = 0
    /\ Commit(unhandled([Heap EXCEPT !.probe.queries = 1]),
              [NoLast EXCEPT !.op = "unmatched", !.b = b], 1)

\* a callback_query event for the button x, whose function is a generator
\* function; its dispatch is not suspended
PressEndGenerator ==
  \E b \in 1..Len(buttons), generator \in ErrorGenerators :
    /\ buttons[b].id = Str1("x")
    /\ PressGeneratorOf(b, generator)

NextEnd ==
  \/ ArriveEnd
  \/ ResumeEnd
  \/ Unmatched
  \/ PressEndGenerator
  \/ SetOnError

\* a dispatch of `pending' can be resumed: the rest of its handler runs to
\* its end, within the bounds of the runs
CanResume(i) ==
  LET T == onCallbackQueryResume([Heap EXCEPT !.failAt = pending[i].failAt,
                                              !.throws = pending[i].throws],
                                 pending[i])
  IN /\ Len(T.menus) <= MaxMenus
     /\ Len(T.buttons) <= MaxButtons
     /\ T.nano <= MaxNano

\* a step that ends one of the suspended dispatches: the steps of ResumeEnd
Resumed == Len(pending') < Len(pending)

\* weak fairness of ResumeEnd, which is enabled when a dispatch is suspended
\* and its steps are the steps Resumed: no dispatch stays suspended for ever
ResumeFair == []<>(Len(pending) = 0) \/ []<><<Resumed>>_vars

SpecEnd == InitError /\ [][NextEnd]_vars /\ ResumeFair

\* C40: _activeMenu is undefined whenever no dispatch is between its start
\* and its end, whatever way the dispatches before ended, and every dispatch
\* that is suspended ends
C40_DispatchEndsAndResets ==
  /\ [](Len(pending) = 0 => aMenu = 0)
  /\ [](\A i \in 1..Len(pending) : CanResume(i))
  /\ [](Len(pending) > 0 => <>(Len(pending) = 0))

\* a suspended dispatch was resumed and raised an error that no handler
\* took, no other dispatch being suspended, and _activeMenu is undefined
C40_Witness ==
  /\ last.op = "resume"
  /\ last.err # "none"
  /\ "error" \notin hooks
  /\ Len(pending) = 0
  /\ aMenu = 0

====
